---------------------------- MODULE Spec2Model ----------------------------
(***************************************************************************)
(* State-machine model of the Polymarket ETH/BTC 15-minute arbitrage bot:  *)
(* the arbitrage detector (strategy/mod.rs), the price cache (cache.rs),   *)
(* the exchange client's order gate (client/mod.rs), the trader            *)
(* (execution/mod.rs), the market monitor with its main-loop callback      *)
(* (monitor/mod.rs, main.rs), and the market discovery (main.rs).          *)
(*                                                                         *)
(* Decimal values are exact fixed-point integers: a price p is held as     *)
(* p * Scale "ticks".  Option<T> is a sequence: None == <<>>,              *)
(* Some(x) == <<x>>.                                                       *)
(***************************************************************************)
EXTENDS Integers, Sequences, FiniteSets, TLC

VARIABLES
  \* ---- detector (strategy/mod.rs) ----
  snapshot,              \* the MarketSnapshot handed to detect_opportunities
  min_profit_threshold,  \* ArbitrageDetector.min_profit_threshold, in ticks
  detected,              \* outcome of detect_opportunities on snapshot
  \* ---- price cache (cache.rs) ----
  cache_map,             \* PriceCache.inner: token id -> Option<CachedOrderbook>
  rw_lock,               \* the RwLock around the map: writer flag, reader count
  wall_ms,               \* SystemTime::now() in milliseconds since the epoch
  feed,                  \* the feed task's position inside PriceCache::update
  reader,                \* the monitor task's position inside PriceCache::get
  updates,               \* history: the CachedOrderbook built by each update
  \* ---- clock ----
  unix_now,              \* SystemTime::now() in whole seconds since the epoch
  \* ---- exchange client and trader (client/mod.rs, execution/mod.rs) ----
  read_only,             \* PolymarketClient.read_only
  signer,                \* Trader.signer: Option<WalletSigner>
  max_position_size,     \* TradingConfig.max_position_size, in ticks
  live_usdc_balance,     \* Trader.live_usdc_balance, in ticks
  queue,                 \* opportunities the callback has still to execute
  ex,                    \* position inside Trader::execute_arbitrage
  trace,                 \* history: the steps of the current execute_arbitrage
  signed,                \* history: every ClobOrder the signer has signed
  posted,                \* history: every order POSTed to the exchange
  executions,            \* number of execute_arbitrage calls started so far
  \* ---- market monitor (monitor/mod.rs) ----
  current_period_timestamp,  \* MarketMonitor.current_period_timestamp
  last_market_refresh,       \* MarketMonitor.last_market_refresh
  resolved,                  \* the four resolved token ids of the monitor
  mon,                       \* position inside MarketMonitor::start_monitoring
  \* ---- market discovery (main.rs) ----
  discovery                  \* position inside discover_markets, with its locals

detectVars == <<snapshot, min_profit_threshold, detected>>

cacheVars == <<cache_map, rw_lock, wall_ms, feed, reader, updates>>

execVars == <<read_only, signer, max_position_size, live_usdc_balance, queue,
              ex, trace, signed, posted, executions>>

monVars == <<current_period_timestamp, last_market_refresh, resolved, mon>>

discVars == <<discovery>>

vars == <<snapshot, min_profit_threshold, detected,
          cache_map, rw_lock, wall_ms, feed, reader, updates,
          unix_now,
          read_only, signer, max_position_size, live_usdc_balance, queue,
          ex, trace, signed, posted, executions,
          current_period_timestamp, last_market_refresh, resolved, mon,
          discovery>>

----------------------------------------------------------------------------
(* Option encoding *)

None == <<>>

Some(x) == <<x>>

Min(a, b) == IF a <= b THEN a ELSE b

----------------------------------------------------------------------------
(* Bounds of the model *)

\* price resolution: ticks per 1.0 (0.01 per tick)
Scale == 100

\* the largest ask, in ticks, drawn for the first leg pair
MaxAskTick == 101

\* the number of PriceCache::update calls in one behaviour
MaxUpdates == 3

\* the last millisecond the wall clock reaches
MaxMs == 2

\* the number of execute_arbitrage calls in one behaviour
MaxExecutions == 3

\* the last second the wall clock reaches while the trader runs
MaxSeconds == 2

\* the number of whole rotation periods after the first the monitor lives
MaxPeriods == 2

\* the last second at which the period computation is exercised
MaxClock == 2700

----------------------------------------------------------------------------
(***************************************************************************)
(* ArbitrageDetector                                                       *)
(***************************************************************************)

\* dec!(1.0), the guaranteed payout of one bundle, in ticks
One == Scale

\* let available_usdc = dec!(10)
available_usdc == 10 * Scale

eth_liquidity == 1000

btc_liquidity == 1000

\* Decimal '/' followed by .floor(): floor of the exact quotient a / c for
\* a >= 0 and c # 0 (Decimal division by zero panics; see build_opportunity)
DecFloorDiv(a, c) ==
  IF c > 0 THEN a \div c
  ELSE 0 - ((a + (0 - c) - 1) \div (0 - c))

\* Decimal::to_u64: None for a negative value
to_u64(d) == IF d < 0 THEN None ELSE Some(d)

unwrap_or(opt, dflt) == IF opt = None THEN dflt ELSE opt[1]

\* (available_usdc / bundle_cost).floor().to_u64().unwrap_or(0)
max_by_capital(bundle_cost) ==
  unwrap_or(to_u64(DecFloorDiv(available_usdc, bundle_cost)), 0)

max_by_liquidity == Min(eth_liquidity, btc_liquidity)

\* the share count taken from the liquidity estimate alone
final_shares_liquidity_only(bundle_cost) == max_by_liquidity

\* let shares = std::cmp::min(max_by_capital, max_by_liquidity)
final_shares(bundle_cost) == Min(max_by_capital(bundle_cost), max_by_liquidity)

\* 'if bundle_cost >= dec!(1.0)' with the comparison made strict
not_arbitrage_strict(bundle_cost) == bundle_cost > One

\* if bundle_cost >= dec!(1.0) { return None; }
not_arbitrage(bundle_cost) == bundle_cost >= One

\* results of build_opportunity: Option<ArbitrageOpportunity>, or a panic of
\* the calling task (Decimal division by zero)
PanicResult == [tag |-> "Panic"]

NoOpportunity == [tag |-> "None"]

SomeOpportunity(o) == [tag |-> "Some", opp |-> o]

build_opportunity(eth_token, btc_token, eth_condition_id, btc_condition_id, threshold) ==
  IF eth_token.ask = None \/ btc_token.ask = None THEN NoOpportunity
  ELSE
    LET eth_price == eth_token.ask[1]
        btc_price == btc_token.ask[1]
        bundle_cost == eth_price + btc_price
        profit_per_bundle == One - bundle_cost
    IN IF not_arbitrage(bundle_cost) THEN NoOpportunity
       ELSE IF profit_per_bundle < threshold THEN NoOpportunity
       ELSE IF bundle_cost = 0 THEN PanicResult
       ELSE
         LET shares == final_shares(bundle_cost)
         IN IF shares = 0 THEN NoOpportunity
            ELSE SomeOpportunity(
                   [eth_condition_id  |-> eth_condition_id,
                    btc_condition_id  |-> btc_condition_id,
                    eth_up_token_id   |-> eth_token.token_id,
                    btc_down_token_id |-> btc_token.token_id,
                    eth_up_price      |-> eth_price,
                    btc_down_price    |-> btc_price,
                    total_cost        |-> bundle_cost * shares,
                    expected_profit   |-> profit_per_bundle * shares])

\* one 'if let (Some(eth), Some(btc)) = ... { if let Some(o) = ... push }'
\* block of detect_opportunities: the result of the leg pair
leg_pair(eth_tok, btc_tok, snap, threshold) ==
  IF eth_tok = None \/ btc_tok = None THEN NoOpportunity
  ELSE build_opportunity(eth_tok[1], btc_tok[1],
                         snap.eth_market.condition_id,
                         snap.btc_market.condition_id, threshold)

\* ETH UP + BTC DOWN
first_pair(snap, threshold) ==
  leg_pair(snap.eth_market.up_token, snap.btc_market.down_token, snap,
           threshold)

\* the second block pairing the two UP tokens
second_pair_same_outcome(snap, threshold) ==
  leg_pair(snap.eth_market.up_token, snap.btc_market.up_token, snap,
           threshold)

\* ETH DOWN + BTC UP
second_pair(snap, threshold) ==
  leg_pair(snap.eth_market.down_token, snap.btc_market.up_token, snap,
           threshold)

PushIfSome(list, r) == IF r.tag = "Some" THEN Append(list, r.opp) ELSE list

\* the Vec returned by detect_opportunities, or the panic that unwinds it
detect_opportunities(snap, threshold) ==
  LET r1 == first_pair(snap, threshold)
      r2 == second_pair(snap, threshold)
  IN IF r1.tag = "Panic" THEN [tag |-> "Panic"]
     ELSE IF r2.tag = "Panic" THEN [tag |-> "Panic"]
     ELSE [tag |-> "Returned",
           opportunities |-> PushIfSome(PushIfSome(<<>>, r1), r2)]

----------------------------------------------------------------------------
(* Inputs of the detector *)

TokenPrice(id, bid, ask) == [token_id |-> id, bid |-> bid, ask |-> ask]

\* asks of the first leg pair: every tick from 0.00 to above 1.00
AskTicks == 0 .. MaxAskTick

\* Option<TokenPrice> values for a token id: no token, a token with an empty
\* ask side, a token with a best ask
TokenChoices(id, asks) ==
  {None, Some(TokenPrice(id, None, None))}
    \cup {Some(TokenPrice(id, None, Some(a))) : a \in asks}

\* asks of the second leg pair
SecondPairAsks == {40, 55}

Thresholds == {0, 1, 3}

MarketData(cid, name, up, down) ==
  [condition_id |-> cid, market_name |-> name, up_token |-> up,
   down_token |-> down]

MakeSnapshot(eu, ed, bu, bd) ==
  [eth_market |-> MarketData("eth-cond", "ETH", eu, ed),
   btc_market |-> MarketData("btc-cond", "BTC", bu, bd)]

Pending == [tag |-> "Pending"]

\* the detector at rest, for the specifications of the other components
DetectIdle ==
  /\ snapshot = MakeSnapshot(None, None, None, None)
  /\ min_profit_threshold = 1
  /\ detected = Pending

\* the callback's 'detector.detect_opportunities(&snapshot)'
Detect ==
  /\ detected = Pending
  /\ detected' = detect_opportunities(snapshot, min_profit_threshold)
  /\ UNCHANGED <<snapshot, min_profit_threshold>>
  /\ UNCHANGED <<cacheVars, unix_now, execVars, monVars>>
  /\ UNCHANGED discVars

----------------------------------------------------------------------------
(***************************************************************************)
(* PriceCache                                                              *)
(*                                                                         *)
(* The map is guarded by one tokio RwLock.  Storing a CachedOrderbook into *)
(* the map and cloning one out of it are not single memory operations:     *)
(* each is modelled as two steps (the bids vector, then the asks vector    *)
(* and the timestamp), both taken while the guard is held.                 *)
(***************************************************************************)

\* the outcome-token ids of the two markets: the keys of the cache
TokenIds == {"eth-up", "eth-down", "btc-up", "btc-down"}

\* the ids whose book the feed updates
FeedTokenIds == {"eth-up", "btc-down"}

\* Vec<(Decimal, Decimal)> values the feed delivers: (price, size) levels
BidSides == {<<>>, <<<<48, 10>>>>}

AskSides == {<<>>, <<<<52, 5>>, <<53, 9>>>>}

\* the books the feed delivers while the monitor builds snapshots: an empty
\* one, one with a best ask of 0.40, one with a best ask of 0.55
SnapshotBooks ==
  {[bids |-> <<>>, asks |-> <<>>],
   [bids |-> <<<<38, 10>>>>, asks |-> <<<<40, 5>>>>],
   [bids |-> <<>>, asks |-> <<<<55, 5>>, <<56, 9>>>>]}

CachedOrderbook(bids, asks, ms) ==
  [bids |-> bids, asks |-> asks, last_update_ms |-> ms]

\* fn now_ms()
now_ms == wall_ms

\* self.inner.read().await is granted whatever the writer is doing
read_granted_always(lock) == TRUE

\* self.inner.read().await is granted when no writer holds the lock
read_granted(lock) == ~lock.writer

\* self.inner.write().await is granted when nobody holds the lock
write_granted(lock) == ~lock.writer /\ lock.readers = 0

\* the value update() stores, with bids and asks exchanged
stored_value_swapped(bids, asks, ms) == CachedOrderbook(asks, bids, ms)

\* CachedOrderbook { bids, asks, last_update_ms: now_ms() }
stored_value(bids, asks, ms) == CachedOrderbook(bids, asks, ms)

\* an insert into a map that keeps a single entry
insert_evicting(map, id, value) ==
  [k \in DOMAIN map |-> IF k = id THEN Some(value) ELSE None]

\* HashMap::insert: the entry of the key is replaced, the others are kept
insert(map, id, value) == [map EXCEPT ![id] = Some(value)]

\* the feed task outside update()
FeedIdle ==
  [pc |-> "idle", token_id |-> "", value |-> CachedOrderbook(<<>>, <<>>, 0)]

\* the monitor task before its first get()
ReaderIdle ==
  [pc |-> "idle", token_id |-> "", seen |-> 0, partial |-> None,
   result |-> None]

\* PriceCache::new()
CacheIdle ==
  /\ cache_map = [id \in TokenIds |-> None]
  /\ rw_lock = [writer |-> FALSE, readers |-> 0]
  /\ wall_ms = 0
  /\ feed = FeedIdle
  /\ reader = ReaderIdle
  /\ updates = <<>>

\* update(): 'let mut map = self.inner.write().await', then the value to
\* insert is built and stamped with now_ms()
UpdateLock(id, bids, asks) ==
  /\ feed.pc = "idle"
  /\ Len(updates) < MaxUpdates
  /\ write_granted(rw_lock)
  /\ rw_lock' = [rw_lock EXCEPT !.writer = TRUE]
  /\ feed' = [pc |-> "insert", token_id |-> id,
              value |-> stored_value(bids, asks, now_ms)]
  /\ updates' = Append(updates, [token_id |-> id,
                                 value |-> CachedOrderbook(bids, asks, now_ms)])
  /\ UNCHANGED <<cache_map, wall_ms, reader>>
  /\ UNCHANGED <<detectVars, unix_now, execVars, monVars>>
  /\ UNCHANGED discVars

\* map.insert(...), first half: the slot receives the bids vector (a slot
\* that was empty holds no asks and no timestamp yet)
UpdateInsertBids ==
  /\ feed.pc = "insert"
  /\ cache_map' =
       [cache_map EXCEPT ![feed.token_id] =
          IF @ = None THEN Some(CachedOrderbook(feed.value.bids, <<>>, 0))
          ELSE Some([@[1] EXCEPT !.bids = feed.value.bids])]
  /\ feed' = [feed EXCEPT !.pc = "insert_rest"]
  /\ UNCHANGED <<rw_lock, wall_ms, reader, updates>>
  /\ UNCHANGED <<detectVars, unix_now, execVars, monVars>>
  /\ UNCHANGED discVars

\* map.insert(...), second half, and the write guard dropped on return
UpdateInsertRest ==
  /\ feed.pc = "insert_rest"
  /\ cache_map' = insert(cache_map, feed.token_id, feed.value)
  /\ rw_lock' = [rw_lock EXCEPT !.writer = FALSE]
  /\ feed' = FeedIdle
  /\ UNCHANGED <<wall_ms, reader, updates>>
  /\ UNCHANGED <<detectVars, unix_now, execVars, monVars>>
  /\ UNCHANGED discVars

\* update() as one step: the write guard is taken, the stamped value is
\* inserted and the guard is dropped
Update(id, bids, asks) ==
  /\ feed.pc = "idle"
  /\ Len(updates) < MaxUpdates
  /\ write_granted(rw_lock)
  /\ cache_map' = insert(cache_map, id, stored_value(bids, asks, now_ms))
  /\ updates' = Append(updates, [token_id |-> id,
                                 value |-> CachedOrderbook(bids, asks, now_ms)])
  /\ UNCHANGED <<rw_lock, wall_ms, feed, reader>>
  /\ UNCHANGED <<detectVars, unix_now, execVars, monVars>>
  /\ UNCHANGED discVars

\* get(): 'self.inner.read().await'
GetLock(id) ==
  /\ reader.pc \in {"idle", "done"}
  /\ read_granted(rw_lock)
  /\ rw_lock' = [rw_lock EXCEPT !.readers = @ + 1]
  /\ reader' = [pc |-> "clone", token_id |-> id, seen |-> Len(updates),
                partial |-> None, result |-> None]
  /\ UNCHANGED <<cache_map, wall_ms, feed, updates>>
  /\ UNCHANGED <<detectVars, unix_now, execVars, monVars>>
  /\ UNCHANGED discVars

\* .get(token_id).cloned(), first half: absent, or the bids vector is copied
GetCloneBids ==
  /\ reader.pc = "clone"
  /\ reader' = [reader EXCEPT !.pc = "clone_rest",
                              !.partial = IF cache_map[reader.token_id] = None
                                          THEN None
                                          ELSE Some(cache_map[reader.token_id][1].bids)]
  /\ UNCHANGED <<cache_map, rw_lock, wall_ms, feed, updates>>
  /\ UNCHANGED <<detectVars, unix_now, execVars, monVars>>
  /\ UNCHANGED discVars

\* .cloned(), second half, and the read guard dropped on return
GetCloneRest ==
  /\ reader.pc = "clone_rest"
  /\ reader' =
       [pc |-> "done", token_id |-> reader.token_id, seen |-> reader.seen,
        partial |-> None,
        result |->
          IF reader.partial = None \/ cache_map[reader.token_id] = None
          THEN None
          ELSE Some(CachedOrderbook(
                      reader.partial[1],
                      cache_map[reader.token_id][1].asks,
                      cache_map[reader.token_id][1].last_update_ms))]
  /\ rw_lock' = [rw_lock EXCEPT !.readers = @ - 1]
  /\ UNCHANGED <<cache_map, wall_ms, feed, updates>>
  /\ UNCHANGED <<detectVars, unix_now, execVars, monVars>>
  /\ UNCHANGED discVars

\* the wall clock advances
TickMs ==
  /\ wall_ms < MaxMs
  /\ wall_ms' = wall_ms + 1
  /\ UNCHANGED <<cache_map, rw_lock, feed, reader, updates>>
  /\ UNCHANGED <<detectVars, unix_now, execVars, monVars>>
  /\ UNCHANGED discVars

----------------------------------------------------------------------------
(***************************************************************************)
(* PolymarketClient::place_signed_order and Trader::execute_arbitrage      *)
(*                                                                         *)
(* execute_arbitrage is one action per suspension point; the outcome of    *)
(* every network call and of every signature is an input of its action.    *)
(***************************************************************************)

\* place_signed_order lets every order through, whatever the mode
blocked_by_read_only_never(ro) == FALSE

\* if self.read_only { anyhow::bail!("READ-ONLY MODE ENABLED"); }
blocked_by_read_only(ro) == ro

\* execute_arbitrage goes on without looking at the signer
signer_missing_ignored(s) == FALSE

\* self.signer.as_ref().ok_or_else(|| anyhow!("Wallet signer missing"))?
signer_missing(s) == s = None

\* the accepting-orders test with '||' replaced by '&&'
market_closed_both(eth_accepting, btc_accepting) ==
  ~eth_accepting /\ ~btc_accepting

\* if !eth_market.accepting_orders || !btc_market.accepting_orders
market_closed(eth_accepting, btc_accepting) ==
  ~eth_accepting \/ ~btc_accepting

\* Trader::calculate_position_size: floor(max_usd / total_cost), 0.0 when the
\* cost is not positive
calculate_position_size(max_usd, opportunity) ==
  IF opportunity.total_cost <= 0 THEN 0
  ELSE max_usd \div opportunity.total_cost

\* to_u256_scaled: the decimal string parsed as f64, times 1_000_000.0, cast
\* to an integer; exact for every value with at most two decimals up to 1.01
\* and for whole share counts
to_u256_scaled(ticks) == (ticks * 1000000) \div Scale

\* str_to_h256: the keccak256 digest of the id
str_to_h256(id) == [keccak256 |-> id]

\* the ClobOrder built for a leg
ClobOrder(token_id, price, size, now, nonce) ==
  [token_id |-> str_to_h256(token_id), side |-> 0,
   price |-> to_u256_scaled(price), size |-> to_u256_scaled(size * Scale),
   expiration |-> now + 300, nonce |-> nonce]

\* the OrderRequest inside the SignedOrderPayload of a leg
OrderRequest(token_id, price, size) ==
  [token_id |-> token_id, side |-> "BUY", size |-> size, price |-> price,
   order_type |-> "LIMIT"]

\* U256::from(now)
eth_nonce(now) == now

\* the second leg signed with the first leg's nonce
btc_nonce_reused(now) == now

\* U256::from(now + 1)
btc_nonce(now) == now + 1

ExIdle ==
  [pc |-> "idle", opp |-> None, eth_accepting |-> None,
   btc_accepting |-> None, fetched_balance |-> None, position_size |-> 0,
   now |-> 0, eth_result |-> "none", btc_result |-> "none", result |-> "none"]

\* Trader::new and PolymarketClient::new, with nothing executed yet
ExecIdle ==
  /\ read_only = FALSE
  /\ signer = None
  /\ max_position_size = 100 * Scale
  /\ live_usdc_balance = 0
  /\ queue = <<>>
  /\ ex = ExIdle
  /\ trace = <<>>
  /\ signed = <<>>
  /\ posted = <<>>
  /\ executions = 0

\* a snapshot with the given asks for the four tokens
PricedSnapshot(eu, ed, bu, bd) ==
  MakeSnapshot(Some(TokenPrice("eth-up", None, Some(eu))),
               Some(TokenPrice("eth-down", None, Some(ed))),
               Some(TokenPrice("btc-up", None, Some(bu))),
               Some(TokenPrice("btc-down", None, Some(bd))))

\* the snapshots handed to the callback: no pair below 1, the first pair
\* below 1, both pairs below 1
ExecSnapshots ==
  {PricedSnapshot(60, 60, 60, 60), PricedSnapshot(40, 60, 60, 40),
   PricedSnapshot(40, 40, 40, 40)}

\* results of get_market: a transport error, or details with the flag
MarketFetchResults == {[ok |-> FALSE, accepting_orders |-> FALSE],
                       [ok |-> TRUE, accepting_orders |-> FALSE],
                       [ok |-> TRUE, accepting_orders |-> TRUE]}

\* results of get_usdc_balance: an error, or a balance in ticks
BalanceResults == {[ok |-> FALSE, balance |-> 0], [ok |-> TRUE, balance |-> 2500]}

\* outcomes of a POST /orders that was sent
PostOutcomes == {"accepted", "rejected", "transport_error"}

Returned(e, res) == [e EXCEPT !.pc = "returned", !.result = res]

\* a failed call made again instead of being given up
fetch_failed_retried(e, res) == e

\* the '?' after get_market(..).await and refresh_balance().await: the error
\* of the call is the result of execute_arbitrage
fetch_failed(e, res) == Returned(e, res)

\* the two submissions awaited one after the other: only the first is
\* started by the first poll
join_first_poll_sequential(ro) ==
  IF blocked_by_read_only(ro)
  THEN [eth |-> "Err: READ-ONLY MODE ENABLED", btc |-> "none"]
  ELSE [eth |-> "in_flight", btc |-> "none"]

\* the first poll of tokio::join!: it polls both place_signed_order futures,
\* and each either bails out in read-only mode or sends its POST /orders
join_first_poll(ro) ==
  IF blocked_by_read_only(ro)
  THEN [eth |-> "Err: READ-ONLY MODE ENABLED",
        btc |-> "Err: READ-ONLY MODE ENABLED"]
  ELSE [eth |-> "in_flight", btc |-> "in_flight"]

\* the results of place_signed_order that are errors
PostErrors == {"Err: READ-ONLY MODE ENABLED", "rejected", "transport_error"}

\* tokio::try_join!: complete as soon as one future has returned an error,
\* the other being dropped
join_complete_on_first_error(eth_result, btc_result) ==
  \/ eth_result \in PostErrors
  \/ btc_result \in PostErrors
  \/ (eth_result # "in_flight" /\ btc_result # "in_flight")

\* tokio::join!: complete once both futures have returned
join_complete(eth_result, btc_result) ==
  eth_result # "in_flight" /\ btc_result # "in_flight"

\* the pair of results returned with '?' instead of being dropped
join_result_propagated(eth_result, btc_result) ==
  IF eth_result \in PostErrors \/ btc_result \in PostErrors
  THEN "Err: place_signed_order"
  ELSE "Ok"

\* 'let _ = tokio::join!(..); Ok(())': whatever the two results are
join_result(eth_result, btc_result) == "Ok"

\* main's callback: 'let opportunities = detector.detect_opportunities(..)'
CallbackDetect(snap) ==
  /\ ex.pc = "idle"
  /\ queue = <<>>
  /\ snapshot' = snap
  /\ detected' = detect_opportunities(snap, min_profit_threshold)
  /\ queue' = IF detected'.tag = "Returned" THEN detected'.opportunities
              ELSE <<>>
  /\ executions + Len(queue') <= MaxExecutions
  /\ UNCHANGED <<min_profit_threshold, unix_now, read_only, signer,
                 max_position_size, live_usdc_balance, ex, trace, signed,
                 posted, executions>>
  /\ UNCHANGED <<cacheVars, monVars>>
  /\ UNCHANGED discVars

\* 'for opportunity in opportunities { let _ = trader.execute_arbitrage(..) }'
\* entering execute_arbitrage: the signer is required
ExecuteStart ==
  /\ ex.pc = "idle"
  /\ queue # <<>>
  /\ queue' = Tail(queue)
  /\ executions' = executions + 1
  /\ trace' = <<>>
  /\ ex' = IF signer_missing(signer)
           THEN Returned([ExIdle EXCEPT !.opp = Some(Head(queue))],
                         "Err: Wallet signer missing")
           ELSE [ExIdle EXCEPT !.pc = "get_market_eth",
                               !.opp = Some(Head(queue))]
  /\ UNCHANGED <<unix_now, read_only, signer, max_position_size,
                 live_usdc_balance, signed, posted>>
  /\ UNCHANGED <<detectVars, cacheVars, monVars>>
  /\ UNCHANGED discVars

\* let eth_market = self.api.get_market(&opportunity.eth_condition_id).await?
GetMarketEth(r) ==
  /\ ex.pc = "get_market_eth"
  /\ trace' = Append(trace, "get_market_eth")
  /\ ex' = IF ~r.ok THEN fetch_failed(ex, "Err: get_market")
           ELSE [ex EXCEPT !.pc = "get_market_btc",
                           !.eth_accepting = Some(r.accepting_orders)]
  /\ UNCHANGED <<unix_now, read_only, signer, max_position_size,
                 live_usdc_balance, queue, signed, posted, executions>>
  /\ UNCHANGED <<detectVars, cacheVars, monVars>>
  /\ UNCHANGED discVars

\* let btc_market = self.api.get_market(&opportunity.btc_condition_id).await?
\* and the accepting-orders test on both markets
GetMarketBtc(r) ==
  /\ ex.pc = "get_market_btc"
  /\ trace' = Append(trace, "get_market_btc")
  /\ ex' = IF ~r.ok THEN fetch_failed(ex, "Err: get_market")
           ELSE IF market_closed(ex.eth_accepting[1], r.accepting_orders)
           THEN Returned([ex EXCEPT !.btc_accepting = Some(r.accepting_orders)],
                         "Ok")
           ELSE [ex EXCEPT !.pc = "refresh_balance",
                           !.btc_accepting = Some(r.accepting_orders)]
  /\ UNCHANGED <<unix_now, read_only, signer, max_position_size,
                 live_usdc_balance, queue, signed, posted, executions>>
  /\ UNCHANGED <<detectVars, cacheVars, monVars>>
  /\ UNCHANGED discVars

\* self.refresh_balance().await?, then the position size, the zero-size
\* test and the reading of the clock
RefreshBalance(r) ==
  /\ ex.pc = "refresh_balance"
  /\ live_usdc_balance' = IF r.ok THEN r.balance ELSE live_usdc_balance
  /\ LET size == calculate_position_size(max_position_size, ex.opp[1])
     IN IF ~r.ok
        THEN /\ ex' = fetch_failed(ex, "Err: get_usdc_balance")
             /\ trace' = Append(trace, "refresh_balance")
        ELSE /\ trace' = trace \o <<"refresh_balance", "calculate_position_size">>
             /\ ex' = IF size <= 0
                      THEN Returned([ex EXCEPT !.position_size = size,
                                               !.fetched_balance = Some(r.balance)],
                                    "Ok")
                      ELSE [ex EXCEPT !.pc = "sign_eth",
                                      !.fetched_balance = Some(r.balance),
                                      !.position_size = size,
                                      !.now = unix_now]
  /\ UNCHANGED <<unix_now, read_only, signer, max_position_size, queue,
                 signed, posted, executions>>
  /\ UNCHANGED <<detectVars, cacheVars, monVars>>
  /\ UNCHANGED discVars

\* let eth_sig = signer.sign_order(&ClobOrder { .. }).await?
SignEth(ok) ==
  /\ ex.pc = "sign_eth"
  /\ trace' = Append(trace, "sign_eth")
  /\ signed' = IF ok
               THEN Append(signed,
                           ClobOrder(ex.opp[1].eth_up_token_id,
                                     ex.opp[1].eth_up_price,
                                     ex.position_size, ex.now,
                                     eth_nonce(ex.now)))
               ELSE signed
  /\ ex' = IF ok THEN [ex EXCEPT !.pc = "sign_btc"]
           ELSE Returned(ex, "Err: sign_order")
  /\ UNCHANGED <<unix_now, read_only, signer, max_position_size,
                 live_usdc_balance, queue, posted, executions>>
  /\ UNCHANGED <<detectVars, cacheVars, monVars>>
  /\ UNCHANGED discVars

\* let btc_sig = signer.sign_order(&ClobOrder { .. }).await?
SignBtc(ok) ==
  /\ ex.pc = "sign_btc"
  /\ trace' = Append(trace, "sign_btc")
  /\ signed' = IF ok
               THEN Append(signed,
                           ClobOrder(ex.opp[1].btc_down_token_id,
                                     ex.opp[1].btc_down_price,
                                     ex.position_size, ex.now,
                                     btc_nonce(ex.now)))
               ELSE signed
  /\ ex' = IF ok THEN [ex EXCEPT !.pc = "join"]
           ELSE Returned(ex, "Err: sign_order")
  /\ UNCHANGED <<unix_now, read_only, signer, max_position_size,
                 live_usdc_balance, queue, posted, executions>>
  /\ UNCHANGED <<detectVars, cacheVars, monVars>>
  /\ UNCHANGED discVars

\* tokio::join!(place_signed_order(&eth_payload), place_signed_order(
\* &btc_payload)), first poll: every call that is started is recorded, and
\* those not refused have sent their POST /orders
JoinPoll ==
  /\ ex.pc = "join"
  /\ LET polled == join_first_poll(read_only)
     IN /\ trace' = trace
                      \o (IF polled.eth # "none" THEN <<"place_eth">> ELSE <<>>)
                      \o (IF polled.btc # "none" THEN <<"place_btc">> ELSE <<>>)
        /\ posted' = posted
                      \o (IF polled.eth = "in_flight"
                          THEN <<OrderRequest(ex.opp[1].eth_up_token_id,
                                              ex.opp[1].eth_up_price,
                                              ex.position_size)>>
                          ELSE <<>>)
                      \o (IF polled.btc = "in_flight"
                          THEN <<OrderRequest(ex.opp[1].btc_down_token_id,
                                              ex.opp[1].btc_down_price,
                                              ex.position_size)>>
                          ELSE <<>>)
        /\ ex' = [ex EXCEPT !.pc = "joined", !.eth_result = polled.eth,
                            !.btc_result = polled.btc]
  /\ UNCHANGED <<unix_now, read_only, signer, max_position_size,
                 live_usdc_balance, queue, signed, executions>>
  /\ UNCHANGED <<detectVars, cacheVars, monVars>>
  /\ UNCHANGED discVars

\* the exchange answers the ETH leg's POST
EthResponse(outcome) ==
  /\ ex.pc = "joined"
  /\ ex.eth_result = "in_flight"
  /\ ex' = [ex EXCEPT !.eth_result = outcome]
  /\ UNCHANGED <<unix_now, read_only, signer, max_position_size,
                 live_usdc_balance, queue, trace, signed, posted, executions>>
  /\ UNCHANGED <<detectVars, cacheVars, monVars>>
  /\ UNCHANGED discVars

\* the exchange answers the BTC leg's POST
BtcResponse(outcome) ==
  /\ ex.pc = "joined"
  /\ ex.btc_result = "in_flight"
  /\ ex' = [ex EXCEPT !.btc_result = outcome]
  /\ UNCHANGED <<unix_now, read_only, signer, max_position_size,
                 live_usdc_balance, queue, trace, signed, posted, executions>>
  /\ UNCHANGED <<detectVars, cacheVars, monVars>>
  /\ UNCHANGED discVars

\* join! completes once both calls have returned; 'let _ =' drops the pair
\* of results and execute_arbitrage returns Ok(())
JoinReturn ==
  /\ ex.pc = "joined"
  /\ join_complete(ex.eth_result, ex.btc_result)
  /\ ex' = Returned(ex, join_result(ex.eth_result, ex.btc_result))
  /\ UNCHANGED <<unix_now, read_only, signer, max_position_size,
                 live_usdc_balance, queue, trace, signed, posted, executions>>
  /\ UNCHANGED <<detectVars, cacheVars, monVars>>
  /\ UNCHANGED discVars

\* the Err results of execute_arbitrage
ErrResults ==
  {"Err: Wallet signer missing", "Err: get_market", "Err: get_usdc_balance",
   "Err: sign_order"}

\* the callback leaving its loop on an error, as 'execute_arbitrage(..)?'
\* would
remaining_after_propagated(res, q) == IF res \in ErrResults THEN <<>> ELSE q

\* the opportunities the callback's 'for' loop has still to execute once a
\* result has been dropped: all those left, whatever the result
remaining_after(res, q) == q

\* 'let _ = trader.execute_arbitrage(&opportunity).await': the callback
\* drops the Result and goes on with its loop
DropResult ==
  /\ ex.pc = "returned"
  /\ ex' = ExIdle
  /\ trace' = <<>>
  /\ queue' = remaining_after(ex.result, queue)
  /\ UNCHANGED <<unix_now, read_only, signer, max_position_size,
                 live_usdc_balance, signed, posted, executions>>
  /\ UNCHANGED <<detectVars, cacheVars, monVars>>
  /\ UNCHANGED discVars

\* a second of wall-clock time passes
TickSecond ==
  /\ unix_now < MaxSeconds
  /\ unix_now' = unix_now + 1
  /\ UNCHANGED <<detectVars, cacheVars, execVars, monVars>>
  /\ UNCHANGED discVars

----------------------------------------------------------------------------
(***************************************************************************)
(* MarketMonitor                                                           *)
(*                                                                         *)
(* One task runs start_monitoring; each action is the code between two     *)
(* suspension points.  Instant and SystemTime advance together and are     *)
(* both read from unix_now, in whole seconds.                              *)
(***************************************************************************)

\* the rotation period 900 rounded to the nearest boundary instead of down
period_of_nearest(now) == ((now + 450) \div 900) * 900

\* (now / 900) * 900 on u64
period_of(now) == (now \div 900) * 900

\* the refresh stamp left as it was when the period changes
refresh_after_rotation_kept(last) == last

\* *self.last_market_refresh.lock().await = None
refresh_after_rotation(last) == None

\* last.map(|t| t.elapsed().as_secs() >= 900).unwrap_or(true)
should_refresh(last, now) == IF last = None THEN TRUE ELSE now - last[1] >= 900

\* the two Market records the monitor is constructed with; a slug is its
\* '-'-separated segments, a segment being text or a run of digits
eth_market ==
  [condition_id |-> "eth-cond", question |-> "ETH up or down",
   slug |-> <<[text |-> "eth"], [text |-> "updown"], [text |-> "15m"],
              [digits |-> 0]>>]

btc_market ==
  [condition_id |-> "btc-cond", question |-> "BTC up or down",
   slug |-> <<[text |-> "btc"], [text |-> "updown"], [text |-> "15m"],
              [digits |-> 0]>>]

\* slug.split('-').last().and_then(parse::<u64>).map(|s| s + 900).unwrap_or(0)
end_time_from_slug(slug) ==
  IF slug = <<>> THEN 0
  ELSE IF "digits" \in DOMAIN slug[Len(slug)]
       THEN slug[Len(slug)].digits + 900
       ELSE 0

LowerLetters ==
  <<"a", "b", "c", "d", "e", "f", "g", "h", "i", "j", "k", "l", "m", "n",
    "o", "p", "q", "r", "s", "t", "u", "v", "w", "x", "y", "z">>

UpperLetters ==
  <<"A", "B", "C", "D", "E", "F", "G", "H", "I", "J", "K", "L", "M", "N",
    "O", "P", "Q", "R", "S", "T", "U", "V", "W", "X", "Y", "Z">>

\* str::to_uppercase, on a string held as its sequence of characters
to_uppercase(str) ==
  [i \in DOMAIN str |->
     IF \E k \in DOMAIN LowerLetters : LowerLetters[k] = str[i]
     THEN UpperLetters[CHOOSE k \in DOMAIN LowerLetters : LowerLetters[k] = str[i]]
     ELSE str[i]]

\* str::contains
contains(str, pat) ==
  \E i \in 0 .. (Len(str) - Len(pat)) : SubSeq(str, i + 1, i + Len(pat)) = pat

\* the UP test as an equality: o == "UP" || o == "1"
is_up_exact(o) == o = <<"U", "P">> \/ o = <<"1">>

\* o.contains("UP") || o == "1"
is_up(o) == contains(o, <<"U", "P">>) \/ o = <<"1">>

\* o.contains("DOWN") || o == "0"
is_down(o) == contains(o, <<"D", "O", "W", "N">>) \/ o = <<"0">>

\* 'for t in m.tokens { .. }' over the tokens of one market: the (up, down)
\* pair of Option<String> after the loop
RECURSIVE classify_tokens(_, _)
classify_tokens(tokens, pair) ==
  IF tokens = <<>> THEN pair
  ELSE LET t == Head(tokens)
           o == to_uppercase(t.outcome)
       IN classify_tokens(Tail(tokens),
            IF is_up(o) THEN [pair EXCEPT !.up = Some(t.token_id)]
            ELSE IF is_down(o) THEN [pair EXCEPT !.down = Some(t.token_id)]
            ELSE pair)

\* results of get_market for a market given its two token ids: an error, or
\* details whose tokens are labelled Up/Down or 1/0
DetailResults(up_id, down_id) ==
  {[ok |-> FALSE, tokens |-> <<>>],
   [ok |-> TRUE,
    tokens |-> <<[token_id |-> up_id, outcome |-> <<"U", "p">>],
                 [token_id |-> down_id, outcome |-> <<"D", "o", "w", "n">>]>>],
   [ok |-> TRUE,
    tokens |-> <<[token_id |-> down_id, outcome |-> <<"0">>],
                 [token_id |-> up_id, outcome |-> <<"1">>]>>]}

\* results of get_market with more kinds of outcome label: an error, or
\* details whose two tokens are
\*   - labelled Up and Down
\*   - labelled 1 and 0, the DOWN token first
\*   - lower case, the two ids exchanged
\*   - labels that name neither direction
\*   - labels that contain UP or DOWN without being equal to them
LabelledResults(up_id, down_id) ==
  {[ok |-> FALSE, tokens |-> <<>>],
   [ok |-> TRUE,
    tokens |-> <<[token_id |-> up_id, outcome |-> <<"U", "p">>],
                 [token_id |-> down_id, outcome |-> <<"D", "o", "w", "n">>]>>],
   [ok |-> TRUE,
    tokens |-> <<[token_id |-> down_id, outcome |-> <<"0">>],
                 [token_id |-> up_id, outcome |-> <<"1">>]>>],
   [ok |-> TRUE,
    tokens |-> <<[token_id |-> down_id, outcome |-> <<"u", "p">>],
                 [token_id |-> up_id, outcome |-> <<"d", "o", "w", "n">>]>>],
   [ok |-> TRUE,
    tokens |-> <<[token_id |-> up_id, outcome |-> <<"Y", "e", "s">>],
                 [token_id |-> down_id, outcome |-> <<"1", "0">>]>>],
   [ok |-> TRUE,
    tokens |-> <<[token_id |-> up_id, outcome |-> <<"U", "p", "w", "a", "r", "d">>],
                 [token_id |-> down_id, outcome |-> <<"D", "o", "w", "n", "w", "a", "r", "d">>]>>]}

\* the instants at which the resolution is exercised: the period boundaries
ResolveClock == {900 * k : k \in 0 .. MaxPeriods}

\* fetch_token_price with an empty ask side read as a best ask of zero
fetch_token_price_zero_ask(token_id) ==
  IF token_id = None THEN None
  ELSE IF cache_map[token_id[1]] = None THEN None
  ELSE LET cached == cache_map[token_id[1]][1]
       IN Some(TokenPrice(token_id[1],
                          IF cached.bids = <<>> THEN None
                          ELSE Some(cached.bids[1][1]),
                          IF cached.asks = <<>> THEN Some(0)
                          ELSE Some(cached.asks[1][1])))

\* fetch_token_price: None without an id or a cache entry, else the first
\* bid and the first ask of the cached book
fetch_token_price(token_id) ==
  IF token_id = None THEN None
  ELSE IF cache_map[token_id[1]] = None THEN None
  ELSE LET cached == cache_map[token_id[1]][1]
       IN Some(TokenPrice(token_id[1],
                          IF cached.bids = <<>> THEN None
                          ELSE Some(cached.bids[1][1]),
                          IF cached.asks = <<>> THEN None
                          ELSE Some(cached.asks[1][1])))

MarketMeta(market) ==
  [name |-> market.question, slug |-> market.slug,
   end_time_unix |-> end_time_from_slug(market.slug)]

NoTokens ==
  [eth_up |-> None, eth_down |-> None, btc_up |-> None, btc_down |-> None]

\* the order in which fetch_market_data reads the four token prices
LegOrder == <<"eth_up", "eth_down", "btc_up", "btc_down">>

\* the monitor task's position and locals, with the history kept about its
\* token resolutions:
\*   legs       the Option<TokenPrice> values read so far by this tick
\*   read_at    for each of them, the number of cache updates made before
\*   eth_in, btc_in  the get_market results of the latest resolution
\*   before     the four mappings when the latest resolution began
\*   rerun      the latest resolution received, without error, the same two
\*              token lists as the resolution before it
\*   last_ok    when the last resolution whose two fetches succeeded ended
\*   forced     a period change has cleared the refresh stamp since last_ok
\*   other      position of a second, concurrent fetch_market_data call
\*   asked      the two condition ids this tick's resolution asked for
\*   balance_in the get_usdc_balance result of this tick
\*   callbacks  the number of times this tick has invoked the callback
MonState(pc, now) ==
  [pc |-> pc, tick_now |-> now, rotated |-> FALSE, prev_refresh |-> None,
   fetched |-> {}, legs |-> <<>>, read_at |-> <<>>, eth_in |-> None,
   btc_in |-> None,
   before |-> NoTokens, rerun |-> FALSE, last_ok |-> None, forced |-> FALSE,
   other |-> "idle", asked |-> <<>>, balance_in |-> None, callbacks |-> 0]

\* no MarketMonitor constructed yet
MonitorIdle ==
  /\ current_period_timestamp = 0
  /\ last_market_refresh = None
  /\ resolved = NoTokens
  /\ mon = MonState("new", 0)

\* MarketMonitor::new at unix time now, start_monitoring about to loop
MonitorConstructed(now) ==
  /\ current_period_timestamp = period_of(now)
  /\ last_market_refresh = None
  /\ resolved = NoTokens
  /\ mon = MonState("tick", now)

\* MarketMonitor::new
MonitorNew ==
  /\ mon.pc = "new"
  /\ current_period_timestamp' = period_of(unix_now)
  /\ last_market_refresh' = None
  /\ resolved' = NoTokens
  /\ mon' = MonState("tick", unix_now)
  /\ UNCHANGED <<detectVars, cacheVars, unix_now, execVars>>
  /\ UNCHANGED discVars

\* top of the loop: the clock is read, the period computed and compared with
\* the stored one; on a change the new period is stored and the refresh
\* stamp cleared
TickRotate ==
  /\ mon.pc = "tick"
  /\ LET now == unix_now
         current == period_of(now)
         stored == current_period_timestamp
     IN /\ current_period_timestamp' = IF current # stored THEN current
                                       ELSE stored
        /\ last_market_refresh' =
             IF current # stored THEN refresh_after_rotation(last_market_refresh)
             ELSE last_market_refresh
        /\ mon' = [mon EXCEPT !.pc = "refresh", !.tick_now = now,
                              !.rotated = (current # stored),
                              !.prev_refresh = last_market_refresh,
                              !.fetched = {}, !.legs = <<>>,
                              !.read_at = <<>>,
                              !.forced = @ \/ (current # stored),
                              !.asked = <<>>, !.balance_in = None,
                              !.callbacks = 0]
  /\ UNCHANGED resolved
  /\ UNCHANGED <<detectVars, cacheVars, unix_now, execVars>>
  /\ UNCHANGED discVars

\* the Market record replaced, when the period changes, by the market of
\* the new period
stored_market_rotated(market, period) ==
  [market EXCEPT !.condition_id = IF period = 0 THEN @ ELSE "next-cond",
                 !.slug = SubSeq(@, 1, Len(@) - 1) \o <<[digits |-> period]>>]

\* self.eth_market.lock().await / self.btc_market.lock().await: the record
\* passed to new, whatever period the monitor has stored since
stored_market(market, period) == market

\* refresh_market_tokens: the 'is a refresh due' test, made with the guard
\* of last_market_refresh held and released; if not due, Ok(()) at once,
\* else the two condition ids are cloned out of the stored Market records
RefreshCheck ==
  /\ mon.pc = "refresh"
  /\ mon' = IF should_refresh(last_market_refresh, unix_now)
            THEN [mon EXCEPT !.pc = "fetch_eth", !.before = resolved,
                    !.asked =
                      <<stored_market(eth_market, current_period_timestamp).condition_id,
                        stored_market(btc_market, current_period_timestamp).condition_id>>]
            ELSE [mon EXCEPT !.pc = "build"]
  /\ UNCHANGED <<current_period_timestamp, last_market_refresh, resolved>>
  /\ UNCHANGED <<detectVars, cacheVars, unix_now, execVars>>
  /\ UNCHANGED discVars

\* the ETH resolution with the two mappings left by the previous resolution
\* exchanged before the tokens are classified
resolve_eth_exchanging(r, res) ==
  LET pair == classify_tokens(r.tokens, [up |-> res.eth_down,
                                         down |-> res.eth_up])
  IN IF r.ok THEN [res EXCEPT !.eth_up = pair.up, !.eth_down = pair.down]
     ELSE res

\* the ETH resolution with a failed fetch leaving both mappings unset
resolve_eth_clearing(r, res) ==
  LET pair == classify_tokens(r.tokens, [up |-> res.eth_up,
                                         down |-> res.eth_down])
  IN IF r.ok THEN [res EXCEPT !.eth_up = pair.up, !.eth_down = pair.down]
     ELSE [res EXCEPT !.eth_up = None, !.eth_down = None]

\* the four mappings after the ETH market's get_market result r
resolve_eth(r, res) ==
  LET pair == classify_tokens(r.tokens, [up |-> res.eth_up,
                                         down |-> res.eth_down])
  IN IF r.ok THEN [res EXCEPT !.eth_up = pair.up, !.eth_down = pair.down]
     ELSE res

\* the four mappings after the BTC market's get_market result r
resolve_btc(r, res) ==
  LET pair == classify_tokens(r.tokens, [up |-> res.btc_up,
                                         down |-> res.btc_down])
  IN IF r.ok THEN [res EXCEPT !.btc_up = pair.up, !.btc_down = pair.down]
     ELSE res

\* if let Ok(m) = self.api.get_market(&eth_id).await { for t in m.tokens .. }
FetchEthDetail(r) ==
  /\ mon.pc = "fetch_eth"
  /\ resolved' = resolve_eth(r, resolved)
  /\ mon' = [mon EXCEPT !.pc = "fetch_btc", !.fetched = @ \cup {"eth"},
                        !.eth_in = Some(r),
                        !.rerun = (r.ok /\ mon.eth_in = Some(r))]
  /\ UNCHANGED <<current_period_timestamp, last_market_refresh>>
  /\ UNCHANGED <<detectVars, cacheVars, unix_now, execVars>>
  /\ UNCHANGED discVars

\* if let Ok(m) = self.api.get_market(&btc_id).await { for t in m.tokens .. }
\* and *self.last_market_refresh.lock().await = Some(Instant::now())
FetchBtcDetail(r) ==
  /\ mon.pc = "fetch_btc"
  /\ resolved' = resolve_btc(r, resolved)
  /\ last_market_refresh' = Some(unix_now)
  /\ mon' = [mon EXCEPT !.pc = "build", !.fetched = @ \cup {"btc"},
                        !.btc_in = Some(r),
                        !.rerun = (@ /\ r.ok /\ mon.btc_in = Some(r)),
                        !.last_ok = IF mon.eth_in[1].ok /\ r.ok
                                    THEN Some(unix_now) ELSE @,
                        !.forced = IF mon.eth_in[1].ok /\ r.ok
                                   THEN FALSE ELSE @]
  /\ UNCHANGED current_period_timestamp
  /\ UNCHANGED <<detectVars, cacheVars, unix_now, execVars>>
  /\ UNCHANGED discVars

\* fetch_market_data after the resolution: the two Market records are
\* cloned and 'get_usdc_balance().await.unwrap_or(Decimal::ZERO)' is
\* evaluated: an error counts as a balance of zero and the call goes on
FetchBalance(r) ==
  /\ mon.pc = "build"
  /\ mon.balance_in = None
  /\ mon' = [mon EXCEPT !.balance_in = Some(r)]
  /\ UNCHANGED <<current_period_timestamp, last_market_refresh, resolved>>
  /\ UNCHANGED <<detectVars, cacheVars, unix_now, execVars>>
  /\ UNCHANGED discVars

\* the four ids are cloned; then one 'self.fetch_token_price(..).await' per
\* step, each a PriceCache::get under the read guard
FetchTokenPrice ==
  /\ mon.pc = "build"
  /\ mon.balance_in # None
  /\ Len(mon.legs) < 4
  /\ read_granted(rw_lock)
  /\ mon' = [mon EXCEPT !.legs =
               Append(@, fetch_token_price(resolved[LegOrder[Len(@) + 1]])),
                        !.read_at = Append(@, Len(updates))]
  /\ UNCHANGED <<current_period_timestamp, last_market_refresh, resolved>>
  /\ UNCHANGED <<detectVars, cacheVars, unix_now, execVars>>
  /\ UNCHANGED discVars

\* the MarketSnapshot assembled from the four prices read
BuildSnapshot ==
  /\ mon.pc = "build"
  /\ Len(mon.legs) = 4
  /\ LET eth == stored_market(eth_market, current_period_timestamp)
         btc == stored_market(btc_market, current_period_timestamp)
     IN snapshot' =
          [eth_market |-> MarketData(eth.condition_id, "ETH",
                                     mon.legs[1], mon.legs[2]),
           btc_market |-> MarketData(btc.condition_id, "BTC",
                                     mon.legs[3], mon.legs[4]),
           eth_market_meta |-> MarketMeta(eth),
           btc_market_meta |-> MarketMeta(btc),
           timestamp |-> unix_now]
  /\ mon' = [mon EXCEPT !.pc = "callback"]
  /\ UNCHANGED <<min_profit_threshold, detected>>
  /\ UNCHANGED <<current_period_timestamp, last_market_refresh, resolved>>
  /\ UNCHANGED <<cacheVars, unix_now, execVars>>
  /\ UNCHANGED discVars

\* on_snapshot(snapshot).await, entered: main's callback runs the detector
\* and queues the opportunities for execution
Callback ==
  /\ mon.pc = "callback"
  /\ detected' = detect_opportunities(snapshot, min_profit_threshold)
  /\ queue' = IF detected'.tag = "Returned" THEN detected'.opportunities
              ELSE <<>>
  /\ executions + Len(queue') <= MaxExecutions
  /\ mon' = [mon EXCEPT !.pc = IF detected'.tag = "Panic" THEN "panicked"
                               ELSE "executing",
                        !.callbacks = @ + 1]
  /\ UNCHANGED <<snapshot, min_profit_threshold>>
  /\ UNCHANGED <<read_only, signer, max_position_size, live_usdc_balance, ex,
                 trace, signed, posted, executions>>
  /\ UNCHANGED <<current_period_timestamp, last_market_refresh, resolved>>
  /\ UNCHANGED <<cacheVars, unix_now>>
  /\ UNCHANGED discVars

\* the callback's future spawned as a task of its own instead of awaited:
\* the loop goes on at once
callback_complete_detached(q, e) == TRUE

\* 'on_snapshot(snapshot).await' returns when the callback's 'for' loop has
\* awaited the last execute_arbitrage
callback_complete(q, e) == q = <<>> /\ e.pc = "idle"

\* on_snapshot(snapshot).await, completed: every opportunity was executed
CallbackDone ==
  /\ mon.pc = "executing"
  /\ callback_complete(queue, ex)
  /\ mon' = [mon EXCEPT !.pc = "sleep"]
  /\ UNCHANGED <<current_period_timestamp, last_market_refresh, resolved>>
  /\ UNCHANGED <<detectVars, cacheVars, unix_now, execVars>>
  /\ UNCHANGED discVars

\* sleep(self.check_interval).await, then the next iteration
Sleep ==
  /\ mon.pc = "sleep"
  /\ mon' = [mon EXCEPT !.pc = "tick"]
  /\ UNCHANGED <<current_period_timestamp, last_market_refresh, resolved>>
  /\ UNCHANGED <<detectVars, cacheVars, unix_now, execVars>>
  /\ UNCHANGED discVars

\* a second call of fetch_market_data, running concurrently with the loop's:
\* its 'is a refresh due' test
OtherRefreshCheck ==
  /\ mon.other = "idle"
  /\ mon' = [mon EXCEPT !.other =
               IF should_refresh(last_market_refresh, unix_now)
               THEN "fetch_eth" ELSE "idle"]
  /\ UNCHANGED <<current_period_timestamp, last_market_refresh, resolved>>
  /\ UNCHANGED <<detectVars, cacheVars, unix_now, execVars>>
  /\ UNCHANGED discVars

\* the second call's ETH market fetch and classification
OtherFetchEthDetail(r) ==
  /\ mon.other = "fetch_eth"
  /\ resolved' = resolve_eth(r, resolved)
  /\ mon' = [mon EXCEPT !.other = "fetch_btc"]
  /\ UNCHANGED <<current_period_timestamp, last_market_refresh>>
  /\ UNCHANGED <<detectVars, cacheVars, unix_now, execVars>>
  /\ UNCHANGED discVars

\* the second call's BTC market fetch, classification and refresh stamp
OtherFetchBtcDetail(r) ==
  /\ mon.other = "fetch_btc"
  /\ resolved' = resolve_btc(r, resolved)
  /\ last_market_refresh' = Some(unix_now)
  /\ mon' = [mon EXCEPT !.other = "idle"]
  /\ UNCHANGED current_period_timestamp
  /\ UNCHANGED <<detectVars, cacheVars, unix_now, execVars>>
  /\ UNCHANGED discVars

\* the instants at which the monitor's clock is observed: the start, the
\* second second and the last second of each period
ClockValues ==
  UNION {{900 * k, 900 * k + 1, 900 * k + 899} : k \in 0 .. MaxPeriods}

\* time passes, to a later one of the observed instants
AdvanceClock(t) ==
  /\ t > unix_now
  /\ unix_now' = t
  /\ UNCHANGED <<detectVars, cacheVars, execVars, monVars>>
  /\ UNCHANGED discVars

\* one second passes
StepSecond ==
  /\ unix_now < MaxClock
  /\ unix_now' = unix_now + 1
  /\ UNCHANGED <<detectVars, cacheVars, execVars, monVars>>
  /\ UNCHANGED discVars

----------------------------------------------------------------------------
(***************************************************************************)
(* Market discovery (main.rs)                                              *)
(*                                                                         *)
(* discover_markets runs discover_market for ETH, then for BTC; each       *)
(* action is one get_market_by_slug call with what follows it.             *)
(***************************************************************************)

\* 'for i in 0..=3': the index of the last candidate period
last_candidate == 3

\* let base = (now / 900) * 900; let ts = base - i * 900
candidate_ts(now, i) == ((now \div 900) * 900) - i * 900

\* format!("{}-updown-15m-{}", prefix, ts), as its segments
candidate_slug(prefix, ts) ==
  <<[text |-> prefix], [text |-> "updown"], [text |-> "15m"], [digits |-> ts]>>

\* the acceptance test without the 'already claimed' part
qualifies_ignoring_seen(market, seen) == market.active /\ ~market.closed

\* !seen.contains(&market.condition_id) && market.active && !market.closed
qualifies(market, seen) ==
  /\ market.condition_id \notin seen
  /\ market.active
  /\ ~market.closed

\* results of get_market_by_slug: an error, or the event's first market
SlugResults ==
  {[ok |-> FALSE, condition_id |-> "", active |-> FALSE, closed |-> FALSE],
   [ok |-> TRUE, condition_id |-> "cond-a", active |-> TRUE, closed |-> FALSE],
   [ok |-> TRUE, condition_id |-> "cond-b", active |-> TRUE, closed |-> FALSE],
   [ok |-> TRUE, condition_id |-> "cond-a", active |-> FALSE, closed |-> FALSE],
   [ok |-> TRUE, condition_id |-> "cond-b", active |-> TRUE, closed |-> TRUE]}

\* the clock readings discovery is run at: the start, the inside and the
\* last second of a period, late enough for base - 3 * 900 to be there
DiscoveryClock ==
  UNION {{900 * k, 900 * k + 1, 900 * k + 899} :
           k \in last_candidate .. (last_candidate + MaxPeriods)}

\* discover_markets not called: no locals
DiscoveryIdle ==
  discovery = [pc |-> "idle", now |-> 0, i |-> 0, seen |-> {}, eth |-> None,
               btc |-> None, result |-> "none", tried |-> <<>>]

\* discover_markets: the clock is read, 'seen' is empty, discover_market is
\* entered for ETH
DiscoverStart ==
  /\ discovery.pc = "idle"
  /\ discovery' = [discovery EXCEPT !.pc = "eth", !.now = unix_now]
  /\ UNCHANGED <<detectVars, cacheVars, unix_now, execVars, monVars>>

\* one iteration of discover_market's loop for the asset being discovered:
\* the slug is fetched and the market accepted or passed over; after the
\* last candidate the function bails out
TrySlug(r) ==
  /\ discovery.pc \in {"eth", "btc"}
  /\ LET prefix == discovery.pc
         ts == candidate_ts(discovery.now, discovery.i)
         market == [condition_id |-> r.condition_id, active |-> r.active,
                    closed |-> r.closed, slug |-> candidate_slug(prefix, ts)]
         tried == Append(discovery.tried,
                         [prefix |-> prefix, slug |-> candidate_slug(prefix, ts),
                          result |-> r, seen |-> discovery.seen])
     IN discovery' =
          IF r.ok /\ qualifies(market, discovery.seen)
          THEN IF prefix = "eth"
               THEN [discovery EXCEPT !.pc = "btc", !.i = 0,
                                      !.eth = Some(market),
                                      !.seen = @ \cup {market.condition_id},
                                      !.tried = tried]
               ELSE [discovery EXCEPT !.pc = "done", !.btc = Some(market),
                                      !.result = "Ok", !.tried = tried]
          ELSE IF discovery.i = last_candidate
               THEN [discovery EXCEPT !.pc = "done", !.tried = tried,
                                      !.result = IF prefix = "eth"
                                                 THEN "Err: No active ETH market found"
                                                 ELSE "Err: No active BTC market found"]
               ELSE [discovery EXCEPT !.i = @ + 1, !.tried = tried]
  /\ UNCHANGED <<detectVars, cacheVars, unix_now, execVars, monVars>>

----------------------------------------------------------------------------
(* Specifications *)

InitDetect ==
  /\ CacheIdle
  /\ unix_now = 0
  /\ ExecIdle
  /\ MonitorIdle
  /\ \E eu \in TokenChoices("eth-up", AskTicks),
        bd \in TokenChoices("btc-down", AskTicks),
        ed \in {Some(TokenPrice("eth-down", None, Some(a))) : a \in SecondPairAsks},
        bu \in {Some(TokenPrice("btc-up", None, Some(a))) : a \in SecondPairAsks} :
       snapshot = MakeSnapshot(eu, ed, bu, bd)
  /\ min_profit_threshold \in Thresholds
  /\ detected = Pending
  /\ DiscoveryIdle

NextDetect == Detect

SpecDetect == InitDetect /\ [][NextDetect]_vars

InitCache ==
  /\ DetectIdle
  /\ CacheIdle
  /\ unix_now = 0
  /\ ExecIdle
  /\ MonitorIdle
  /\ DiscoveryIdle

NextCache ==
  \/ \E id \in FeedTokenIds, b \in BidSides, a \in AskSides : UpdateLock(id, b, a)
  \/ UpdateInsertBids
  \/ UpdateInsertRest
  \/ \E id \in FeedTokenIds : GetLock(id)
  \/ GetCloneBids
  \/ GetCloneRest
  \/ TickMs

SpecCache == InitCache /\ [][NextCache]_vars

\* the trader and the client as main constructs them, in either mode, with
\* or without a wallet key, for two position limits
InitExec ==
  /\ snapshot = MakeSnapshot(None, None, None, None)
  /\ min_profit_threshold = 1
  /\ detected = Pending
  /\ CacheIdle
  /\ unix_now = 0
  /\ read_only \in BOOLEAN
  /\ signer \in {None, Some("wallet")}
  /\ max_position_size \in {5 * Scale, 100 * Scale}
  /\ live_usdc_balance = 0
  /\ queue = <<>>
  /\ ex = ExIdle
  /\ trace = <<>>
  /\ signed = <<>>
  /\ posted = <<>>
  /\ executions = 0
  /\ MonitorIdle
  /\ DiscoveryIdle

NextExec ==
  \/ \E snap \in ExecSnapshots : CallbackDetect(snap)
  \/ ExecuteStart
  \/ \E r \in MarketFetchResults : GetMarketEth(r)
  \/ \E r \in MarketFetchResults : GetMarketBtc(r)
  \/ \E r \in BalanceResults : RefreshBalance(r)
  \/ \E ok \in BOOLEAN : SignEth(ok)
  \/ \E ok \in BOOLEAN : SignBtc(ok)
  \/ JoinPoll
  \/ \E o \in PostOutcomes : EthResponse(o)
  \/ \E o \in PostOutcomes : BtcResponse(o)
  \/ JoinReturn
  \/ DropResult
  \/ TickSecond

SpecExec == InitExec /\ [][NextExec]_vars

\* the monitor constructed at any of the observed instants, the cache empty
InitMonitor ==
  /\ DetectIdle
  /\ CacheIdle
  /\ ExecIdle
  /\ unix_now \in ClockValues
  /\ MonitorConstructed(unix_now)
  /\ DiscoveryIdle

NextMonitor ==
  \/ TickRotate
  \/ RefreshCheck
  \/ \E r \in DetailResults("eth-up", "eth-down") : FetchEthDetail(r)
  \/ \E r \in DetailResults("btc-up", "btc-down") : FetchBtcDetail(r)
  \/ \E r \in BalanceResults : FetchBalance(r)
  \/ FetchTokenPrice
  \/ BuildSnapshot
  \/ Callback
  \/ CallbackDone
  \/ Sleep
  \/ \E t \in ClockValues : AdvanceClock(t)

SpecMonitor == InitMonitor /\ [][NextMonitor]_vars

\* the period computation at every second: the monitor is constructed at any
\* second up to MaxClock and runs the top of its loop one second later
InitPeriod ==
  /\ DetectIdle
  /\ CacheIdle
  /\ ExecIdle
  /\ unix_now \in 0 .. MaxClock
  /\ MonitorIdle
  /\ DiscoveryIdle

NextPeriod ==
  \/ MonitorNew
  \/ mon.pc = "tick" /\ unix_now = mon.tick_now /\ StepSecond
  \/ unix_now > mon.tick_now /\ TickRotate

SpecPeriod == InitPeriod /\ [][NextPeriod]_vars

\* the token resolution under every kind of outcome label: the monitor is
\* constructed at time 0 and the clock moves from one period to a later one
InitResolve ==
  /\ DetectIdle
  /\ CacheIdle
  /\ ExecIdle
  /\ unix_now = 0
  /\ MonitorConstructed(0)
  /\ DiscoveryIdle

NextResolve ==
  \/ TickRotate
  \/ RefreshCheck
  \/ \E r \in LabelledResults("eth-up", "eth-down") : FetchEthDetail(r)
  \/ \E r \in LabelledResults("btc-up", "btc-down") : FetchBtcDetail(r)
  \/ \E r \in BalanceResults : FetchBalance(r)
  \/ FetchTokenPrice
  \/ BuildSnapshot
  \/ Callback
  \/ CallbackDone
  \/ Sleep
  \/ \E t \in ResolveClock : AdvanceClock(t)

SpecResolve == InitResolve /\ [][NextResolve]_vars

\* the monitor's loop with the feed updating the cache beside it; the
\* trader has no signer
InitSnapshot ==
  /\ DetectIdle
  /\ CacheIdle
  /\ ExecIdle
  /\ unix_now = 0
  /\ MonitorConstructed(0)
  /\ DiscoveryIdle

NextSnapshot ==
  \/ \E id \in FeedTokenIds, b \in SnapshotBooks : Update(id, b.bids, b.asks)
  \/ TickRotate
  \/ RefreshCheck
  \/ \E r \in DetailResults("eth-up", "eth-down") : FetchEthDetail(r)
  \/ \E r \in DetailResults("btc-up", "btc-down") : FetchBtcDetail(r)
  \/ \E r \in BalanceResults : FetchBalance(r)
  \/ FetchTokenPrice
  \/ BuildSnapshot
  \/ Callback
  \/ ExecuteStart
  \/ DropResult
  \/ CallbackDone
  \/ Sleep

SpecSnapshot == InitSnapshot /\ [][NextSnapshot]_vars

\* the monitor's loop with a second task calling fetch_market_data on the
\* same MarketMonitor
InitConcurrent ==
  /\ DetectIdle
  /\ CacheIdle
  /\ ExecIdle
  /\ unix_now = 0
  /\ MonitorConstructed(0)
  /\ DiscoveryIdle

NextConcurrent ==
  \/ TickRotate
  \/ RefreshCheck
  \/ \E r \in DetailResults("eth-up", "eth-down") : FetchEthDetail(r)
  \/ \E r \in DetailResults("btc-up", "btc-down") : FetchBtcDetail(r)
  \/ \E r \in BalanceResults : FetchBalance(r)
  \/ FetchTokenPrice
  \/ BuildSnapshot
  \/ Callback
  \/ CallbackDone
  \/ Sleep
  \/ OtherRefreshCheck
  \/ \E r \in DetailResults("eth-up", "eth-down") : OtherFetchEthDetail(r)
  \/ \E r \in DetailResults("btc-up", "btc-down") : OtherFetchBtcDetail(r)

SpecConcurrent == InitConcurrent /\ [][NextConcurrent]_vars

\* the whole loop: monitor, callback and trader, over a cache in which the
\* feed has stored a 0.40 ask for each of the four tokens
LoopFeed ==
  <<[token_id |-> "eth-up", value |-> CachedOrderbook(<<>>, <<<<40, 5>>>>, 0)],
    [token_id |-> "eth-down", value |-> CachedOrderbook(<<>>, <<<<40, 5>>>>, 0)],
    [token_id |-> "btc-up", value |-> CachedOrderbook(<<>>, <<<<40, 5>>>>, 0)],
    [token_id |-> "btc-down", value |-> CachedOrderbook(<<>>, <<<<40, 5>>>>, 0)]>>

InitLoop ==
  /\ DetectIdle
  /\ cache_map = [id \in TokenIds |-> Some(CachedOrderbook(<<>>, <<<<40, 5>>>>, 0))]
  /\ rw_lock = [writer |-> FALSE, readers |-> 0]
  /\ wall_ms = 0
  /\ feed = FeedIdle
  /\ reader = ReaderIdle
  /\ updates = LoopFeed
  /\ unix_now = 0
  /\ read_only \in BOOLEAN
  /\ signer \in {None, Some("wallet")}
  /\ max_position_size = 100 * Scale
  /\ live_usdc_balance = 0
  /\ queue = <<>>
  /\ ex = ExIdle
  /\ trace = <<>>
  /\ signed = <<>>
  /\ posted = <<>>
  /\ executions = 0
  /\ MonitorConstructed(0)
  /\ DiscoveryIdle

NextLoop ==
  \/ TickRotate
  \/ RefreshCheck
  \/ \E r \in DetailResults("eth-up", "eth-down") : FetchEthDetail(r)
  \/ \E r \in DetailResults("btc-up", "btc-down") : FetchBtcDetail(r)
  \/ \E r \in BalanceResults : FetchBalance(r)
  \/ FetchTokenPrice
  \/ BuildSnapshot
  \/ Callback
  \/ ExecuteStart
  \/ \E r \in MarketFetchResults : GetMarketEth(r)
  \/ \E r \in MarketFetchResults : GetMarketBtc(r)
  \/ \E r \in BalanceResults : RefreshBalance(r)
  \/ \E ok \in BOOLEAN : SignEth(ok)
  \/ \E ok \in BOOLEAN : SignBtc(ok)
  \/ JoinPoll
  \/ \E o \in PostOutcomes : EthResponse(o)
  \/ \E o \in PostOutcomes : BtcResponse(o)
  \/ JoinReturn
  \/ DropResult
  \/ CallbackDone
  \/ Sleep

\* the runtime keeps polling the task, and every network call and the sleep
\* complete (the transport's own timeout ends a stuck call)
SpecLoop == InitLoop /\ [][NextLoop]_vars /\ WF_vars(NextLoop)

\* discovery at start-up, run at any of the clock readings
InitDiscover ==
  /\ DetectIdle
  /\ CacheIdle
  /\ ExecIdle
  /\ unix_now \in DiscoveryClock
  /\ MonitorIdle
  /\ DiscoveryIdle

NextDiscover ==
  \/ DiscoverStart
  \/ \E r \in SlugResults : TrySlug(r)

SpecDiscover == InitDiscover /\ [][NextDiscover]_vars

----------------------------------------------------------------------------
(* Properties of the detector *)

\* the two leg pairs, as (ETH token, BTC token) of the snapshot
LegPairs ==
  {<<snapshot.eth_market.up_token, snapshot.btc_market.down_token>>,
   <<snapshot.eth_market.down_token, snapshot.btc_market.up_token>>}

BothAsked(p) ==
  /\ p[1] # None /\ p[2] # None
  /\ p[1][1].ask # None /\ p[2][1].ask # None

BundleCost(p) == p[1][1].ask[1] + p[2][1].ask[1]

\* the opportunities returned for a leg pair
OppsOf(p) ==
  IF detected.tag = "Returned" /\ p[1] # None /\ p[2] # None
  THEN {i \in DOMAIN detected.opportunities :
          /\ detected.opportunities[i].eth_up_token_id = p[1][1].token_id
          /\ detected.opportunities[i].btc_down_token_id = p[2][1].token_id}
  ELSE {}

\* C1: once detect_opportunities has run, a leg pair whose two asks sum to
\* 1 or more (exactly 1 included) has no opportunity in the result, whatever
\* the minimum-profit threshold.
C1_NoOpportunityAtOrAboveOne ==
  detected # Pending =>
    \A p \in LegPairs :
      (BothAsked(p) /\ BundleCost(p) >= One) => OppsOf(p) = {}

\* the detector has returned, the first pair costs exactly 1 under a zero
\* threshold, and the other pair's opportunity is the only one returned
C1_Witness ==
  /\ detected.tag = "Returned"
  /\ min_profit_threshold = 0
  /\ BothAsked(<<snapshot.eth_market.up_token, snapshot.btc_market.down_token>>)
  /\ BundleCost(<<snapshot.eth_market.up_token, snapshot.btc_market.down_token>>) = One
  /\ Len(detected.opportunities) = 1

\* C2: once detect_opportunities has run, every leg pair with both asks,
\* bundle cost c < 1 and profit 1 - c >= threshold (equality included) has
\* exactly one opportunity in the result, with total_cost = c * shares and
\* expected_profit = (1 - c) * shares for
\* shares = min(floor(capital / c), min(liquidity_a, liquidity_b)).
C2_OpportunityWheneverProfitable ==
  detected # Pending =>
    \A p \in LegPairs :
      (/\ BothAsked(p)
       /\ BundleCost(p) < One
       /\ One - BundleCost(p) >= min_profit_threshold)
      => /\ Cardinality(OppsOf(p)) = 1
         /\ \A i \in OppsOf(p) :
              LET o == detected.opportunities[i]
                  c == BundleCost(p)
                  s == Min((10 * Scale) \div c, Min(1000, 1000))
              IN c > 0 => /\ o.total_cost = c * s
                          /\ o.expected_profit = (One - c) * s

----------------------------------------------------------------------------
(* Properties of the price cache *)

\* the indices, up to n, of the updates of token id in the history
UpdatesOf(id, n) == {i \in 1 .. n : updates[i].token_id = id}

\* what the cache holds for id once the first n updates have been applied
ExpectedAt(id, n) ==
  IF UpdatesOf(id, n) = {} THEN None
  ELSE Some(updates[CHOOSE i \in UpdatesOf(id, n) :
                      \A j \in UpdatesOf(id, n) : j <= i].value)

GetSeesLastUpdate ==
  reader.pc = "done" =>
    reader.result = ExpectedAt(reader.token_id, reader.seen)

StampNeverDecreases ==
  \A id \in TokenIds :
    (cache_map[id] # None /\ cache_map'[id] # None)
      => cache_map'[id][1].last_update_ms >= cache_map[id][1].last_update_ms

C8_NoTornRead ==
  reader.pc = "done" =>
    \/ reader.result = None
    \/ \E i \in DOMAIN updates :
         /\ updates[i].token_id = reader.token_id
         /\ reader.result = Some(updates[i].value)

\* the feed is half-way through replacing the book of
\* the id whose previous book a get has just returned
C8_Witness ==
  /\ reader.pc = "done"
  /\ reader.result # None
  /\ feed.pc = "insert_rest"
  /\ feed.token_id = reader.token_id
  /\ feed.value.bids # reader.result[1].bids
  /\ feed.value.asks # reader.result[1].asks

----------------------------------------------------------------------------
(* Properties of the client and the trader *)

ReadOnlyError == "Err: READ-ONLY MODE ENABLED"

\* C4: in read-only mode no order is ever POSTed to the exchange, and each
\* place_signed_order call made by the current execution has failed with
\* the read-only error.
C4_ReadOnlyNeverPosts ==
  read_only =>
    /\ posted = <<>>
    /\ \A i \in DOMAIN trace :
         /\ trace[i] = "place_eth" => ex.eth_result = ReadOnlyError
         /\ trace[i] = "place_btc" => ex.btc_result = ReadOnlyError

\* in read-only mode, the second execution reached the two submissions and
\* both were refused
C4_Witness ==
  /\ read_only
  /\ executions = 2
  /\ ex.pc = "returned"
  /\ Len(signed) >= 2
  /\ ex.eth_result = ReadOnlyError
  /\ ex.btc_result = ReadOnlyError
  /\ posted = <<>>

AfterFetchSteps ==
  {"calculate_position_size", "sign_eth", "sign_btc", "place_eth", "place_btc"}

\* sizing, signing and submission come after both market fetches
FetchesComeFirst ==
  \A i \in DOMAIN trace :
    trace[i] \in AfterFetchSteps =>
      /\ \E j \in 1 .. (i - 1) : trace[j] = "get_market_eth"
      /\ \E j \in 1 .. (i - 1) : trace[j] = "get_market_btc"

EitherReportsClosed ==
  ex.eth_accepting = Some(FALSE) \/ ex.btc_accepting = Some(FALSE)

NothingSizedSignedOrSent ==
  \A i \in DOMAIN trace : trace[i] \notin AfterFetchSteps

\* C5 as stated: both markets are fetched before any sizing, signing or
\* submission; and once either market has reported accepting_orders = false
\* nothing is sized, signed or submitted and the call, when it returns,
\* returns Ok.
C5_ClosedMarketAbortsWithOk ==
  /\ FetchesComeFirst
  /\ EitherReportsClosed =>
       /\ NothingSizedSignedOrSent
       /\ ex.pc = "returned" => ex.result = "Ok"

\* C5 amended: both markets are fetched before any sizing, signing or
\* submission; once either market has reported accepting_orders = false
\* nothing is sized, signed or submitted; and when both fetches succeeded
\* and either reports false the call has returned Ok.
C5_ClosedMarketAbortsAmended ==
  /\ FetchesComeFirst
  /\ EitherReportsClosed => NothingSizedSignedOrSent
  /\ (EitherReportsClosed /\ ex.eth_accepting # None /\ ex.btc_accepting # None)
       => (ex.pc = "returned" /\ ex.result = "Ok")

\* both fetches succeeded, only the BTC market is closed, and the call has
\* returned Ok with nothing after the two fetches
C5_Witness ==
  /\ ex.pc = "returned"
  /\ ex.result = "Ok"
  /\ ex.eth_accepting = Some(TRUE)
  /\ ex.btc_accepting = Some(FALSE)
  /\ trace = <<"get_market_eth", "get_market_btc">>

\* C6: over all the orders signed by the process, in signing order, the
\* nonces are strictly increasing.
C6_NoncesStrictlyIncrease ==
  \A i \in DOMAIN signed : \A j \in DOMAIN signed :
    i < j => signed[i].nonce < signed[j].nonce

----------------------------------------------------------------------------
(* Properties of the monitor *)

\* C9: the period id computed from a clock reading now in the window
\* [k*900, (k+1)*900) is the one computed at the start k*900 of that window,
\* and the ids computed at (k+1)*900 - 1 and at (k+1)*900 differ.
C9_PeriodStableWithinWindow ==
  mon.pc # "new" =>
    \A k \in 0 .. ((MaxClock \div 900) + 1) :
      (k * 900 <= mon.tick_now /\ mon.tick_now < (k + 1) * 900) =>
        /\ current_period_timestamp = period_of(k * 900)
        /\ period_of((k + 1) * 900 - 1) # period_of((k + 1) * 900)

\* a monitor constructed in the last second of a period has ticked exactly
\* on the boundary and stored the new period
C9_Witness ==
  /\ mon.pc = "refresh"
  /\ mon.rotated
  /\ mon.tick_now = 1800
  /\ current_period_timestamp = 1800

\* C10: once a tick has compared the periods, the stored period is the start
\* of the 900-second window of the clock reading of that tick; a tick that
\* found the period changed leaves the refresh stamp cleared, and by the time
\* its token resolution is over both market details have been fetched.
C10_RotationForcesResolution ==
  /\ mon.pc # "new" =>
       \E k \in 0 .. MaxPeriods :
         /\ k * 900 <= mon.tick_now
         /\ mon.tick_now < (k + 1) * 900
         /\ current_period_timestamp = k * 900
  /\ (mon.rotated /\ mon.pc = "refresh") => last_market_refresh = None
  /\ (mon.rotated /\ mon.pc \in {"build", "callback", "executing", "sleep"})
       => mon.fetched = {"eth", "btc"}

\* a tick found the period changed less than 900 seconds after the previous
\* resolution, and has fetched both market details all the same
C10_Witness ==
  /\ mon.pc = "build"
  /\ mon.rotated
  /\ mon.prev_refresh # None
  /\ mon.tick_now - mon.prev_refresh[1] < 900
  /\ mon.fetched = {"eth", "btc"}
  /\ current_period_timestamp = mon.tick_now

\* a resolution whose two market-detail fetches succeeded ended less than 900
\* seconds ago and no period change has cleared the refresh stamp since
FreshSuccessfulResolution ==
  /\ mon.last_ok # None
  /\ unix_now - mon.last_ok[1] < 900
  /\ ~mon.forced

\* C11: a call of fetch_market_data skips the token resolution if and only
\* if the last resolution whose market-detail fetches succeeded is younger
\* than 900 seconds and no period rotation has forced staleness since then.
C11_SkippedIffFreshSuccess ==
  [][(mon.pc = "refresh" /\ mon'.pc # "refresh")
       => ((mon'.pc = "build") <=> FreshSuccessfulResolution)]_vars

\* a resolution has just ended (both fetches made) in the current tick
ResolutionEnded == mon.pc = "build" /\ mon.fetched = {"eth", "btc"}

\* C12: when a resolution has run again and the exchange returned, for each
\* market, the same token list as in the resolution before, the four
\* UP/DOWN mappings are those the earlier resolution left.
C12_ResolutionIdempotent ==
  (ResolutionEnded /\ mon.rerun) => resolved = mon.before

\* the second of two resolutions that received the same lists has ended; the
\* ETH list is the lower-case one with the ids exchanged, so that the
\* mappings it leaves are not the initial ones
C12_Witness ==
  /\ ResolutionEnded
  /\ mon.rerun
  /\ mon.rotated
  /\ resolved.eth_up = Some("eth-down")
  /\ resolved.eth_down = Some("eth-up")
  /\ resolved.btc_up = Some("btc-up")
  /\ resolved = mon.before

\* the id of the last token of the list whose upper-cased label satisfies
\* P, or the previous mapping when no label does
LastLabelled(tokens, P(_), old) ==
  LET hits == {i \in DOMAIN tokens : P(to_uppercase(tokens[i].outcome))}
  IN IF hits = {} THEN old
     ELSE Some(tokens[CHOOSE i \in hits : \A j \in hits : j <= i].token_id)

\* the mappings a resolution leaves for one market, given the result of its
\* get_market, under label tests Up(_) and Down(_)
MappingAfter(in, old_up, old_down, Up(_), Down(_)) ==
  IF in[1].ok
  THEN [up |-> LastLabelled(in[1].tokens, Up, old_up),
        down |-> LastLabelled(in[1].tokens, Down, old_down)]
  ELSE [up |-> old_up, down |-> old_down]

\* the four mappings agree with label tests Up(_) and Down(_)
ClassifiedBy(Up(_), Down(_)) ==
  ResolutionEnded =>
    LET e == MappingAfter(mon.eth_in, mon.before.eth_up, mon.before.eth_down,
                          Up, Down)
        b == MappingAfter(mon.btc_in, mon.before.btc_up, mon.before.btc_down,
                          Up, Down)
    IN /\ resolved.eth_up = e.up /\ resolved.eth_down = e.down
       /\ resolved.btc_up = b.up /\ resolved.btc_down = b.down

LabelIsUp(o) == o = <<"U", "P">> \/ o = <<"1">>

LabelIsDown(o) == o = <<"D", "O", "W", "N">> \/ o = <<"0">>

LabelHasUp(o) == contains(o, <<"U", "P">>) \/ o = <<"1">>

LabelHasDown(o) ==
  ~LabelHasUp(o) /\ (contains(o, <<"D", "O", "W", "N">>) \/ o = <<"0">>)

\* C13 as stated: after a resolution, a token is mapped as UP exactly when
\* its label, compared case-insensitively, is "UP" or "1", as DOWN exactly
\* when it is "DOWN" or "0", and any other label changes neither mapping.
C13_ClassifiedByEqualLabel == ClassifiedBy(LabelIsUp, LabelIsDown)

\* C13 amended: after a resolution, a token is mapped as UP exactly when
\* its upper-cased label contains "UP" or is "1", otherwise as DOWN exactly
\* when it contains "DOWN" or is "0", and any other label changes neither
\* mapping.
C13_ClassifiedByContainedLabel == ClassifiedBy(LabelHasUp, LabelHasDown)

\* a resolution has classified "Upward"/"Downward" for ETH and left the BTC
\* mappings of the earlier resolution alone on "Yes"/"10"
C13_Witness ==
  /\ ResolutionEnded
  /\ mon.eth_in[1].ok
  /\ mon.eth_in[1].tokens[1].outcome = <<"U", "p", "w", "a", "r", "d">>
  /\ resolved.eth_up = Some("eth-up")
  /\ resolved.eth_down = Some("eth-down")
  /\ mon.btc_in[1].ok
  /\ mon.btc_in[1].tokens[1].outcome = <<"Y", "e", "s">>
  /\ mon.before.btc_up = Some("btc-down")
  /\ resolved.btc_up = Some("btc-down")
  /\ resolved.btc_down = Some("btc-up")

----------------------------------------------------------------------------
(* Properties of the snapshot *)

\* the four legs of the snapshot, in the order they were read
SnapshotLegs ==
  <<snapshot.eth_market.up_token, snapshot.eth_market.down_token,
    snapshot.btc_market.up_token, snapshot.btc_market.down_token>>

\* the cache entry leg k's read found: the token has a resolved id and the
\* cache held a book for it after the updates made before the read
EntryRead(k) ==
  IF resolved[LegOrder[k]] = None THEN None
  ELSE ExpectedAt(resolved[LegOrder[k]][1], mon.read_at[k])

\* leg k had no resolved id, no cache entry, or an entry with no asks
Unpriced(k) == EntryRead(k) = None \/ EntryRead(k)[1].asks = <<>>

\* the (ETH leg, BTC leg) positions of the two leg pairs
PairPositions == {<<1, 4>>, <<2, 3>>}

\* C14: once the callback has run on a snapshot, the detector has returned
\* (no error); every leg whose token had no resolved id, no cache entry or an
\* entry without asks carries no ask price in the snapshot; and every
\* opportunity emitted is made of two priced legs of one pair at the asks
\* that were read, so none uses an unpriced leg and none prices it at zero.
C14_AbsentPriceNeverTraded ==
  mon.pc = "executing" =>
    /\ detected.tag = "Returned"
    /\ \A k \in 1 .. 4 :
         Unpriced(k) => (SnapshotLegs[k] = None \/ SnapshotLegs[k][1].ask = None)
    /\ \A i \in DOMAIN detected.opportunities :
         \E p \in PairPositions :
           /\ ~Unpriced(p[1]) /\ ~Unpriced(p[2])
           /\ detected.opportunities[i].eth_up_token_id = resolved[LegOrder[p[1]]][1]
           /\ detected.opportunities[i].btc_down_token_id = resolved[LegOrder[p[2]]][1]
           /\ detected.opportunities[i].eth_up_price = EntryRead(p[1])[1].asks[1][1]
           /\ detected.opportunities[i].btc_down_price = EntryRead(p[2])[1].asks[1][1]

\* a snapshot was built although the ETH-UP book had no asks, the BTC-DOWN
\* book asked 0.40 and ETH-DOWN and BTC-UP had no entry; nothing was emitted
C14_Witness ==
  /\ mon.pc = "executing"
  /\ resolved.eth_up = Some("eth-up")
  /\ resolved.btc_down = Some("btc-down")
  /\ EntryRead(1) # None
  /\ EntryRead(1)[1].asks = <<>>
  /\ EntryRead(2) = None
  /\ ~Unpriced(4)
  /\ SnapshotLegs[1][1].ask = None
  /\ SnapshotLegs[2] = None
  /\ SnapshotLegs[4][1].ask = Some(40)
  /\ detected.tag = "Returned"
  /\ detected.opportunities = <<>>

\* the top of book the cache showed for an Option<String> id after the first
\* n updates
TopOfBookAt(id, n) ==
  IF id = None THEN None
  ELSE IF ExpectedAt(id[1], n) = None THEN None
  ELSE LET book == ExpectedAt(id[1], n)[1]
       IN Some(TokenPrice(id[1],
                          IF book.bids = <<>> THEN None ELSE Some(book.bids[1][1]),
                          IF book.asks = <<>> THEN None ELSE Some(book.asks[1][1])))

\* C15: every snapshot handed to the callback shows, for all four tokens,
\* the top of book of one single state of the cache: the state after some
\* number n of the feed's updates.
C15_SnapshotIsPointInTime ==
  mon.pc = "callback" =>
    \E n \in 0 .. Len(updates) :
      \A k \in 1 .. 4 : SnapshotLegs[k] = TopOfBookAt(resolved[LegOrder[k]], n)

----------------------------------------------------------------------------
(* Properties of the rotation state under two callers *)

\* C16: the 'is refresh due' test and the stamp written after the resolution
\* are one atomic operation on last_market_refresh, so two concurrent
\* fetch_market_data calls are never both performing the resolution for a
\* refresh that both found due.
C16_OnlyOneCallerResolves ==
  ~(mon.pc \in {"fetch_eth", "fetch_btc"}
    /\ mon.other \in {"fetch_eth", "fetch_btc"})

----------------------------------------------------------------------------
(* Properties of the trader's sizing and of its signer requirement *)

\* the current execute_arbitrage has computed its position size
Sized == \E i \in DOMAIN trace : trace[i] = "calculate_position_size"

\* C17: the position size of an execution is
\* floor(max_position_size / bundle_cost), the bundle cost being the sum of
\* the opportunity's two ask prices; and when the size is <= 0 nothing is
\* signed or submitted.
C17_SizeFromBundleCost ==
  Sized =>
    /\ ex.position_size =
         max_position_size \div (ex.opp[1].eth_up_price + ex.opp[1].btc_down_price)
    /\ ex.position_size <= 0 =>
         \A i \in DOMAIN trace :
           trace[i] \notin {"sign_eth", "sign_btc", "place_eth", "place_btc"}

SignerMissingError == "Err: Wallet signer missing"

\* C18: without a signer an execution makes no market fetch, no balance
\* fetch, no signature and no submission (its step history stays empty and
\* nothing is ever signed or posted) and returns the signer error; and the
\* opportunity is not retried: when the callback drops the result, the
\* opportunity is not put back on the queue and no execution is started for
\* it again.
C18_NoSignerDropsOpportunity ==
  /\ [](signer = None =>
          /\ trace = <<>>
          /\ signed = <<>>
          /\ posted = <<>>
          /\ live_usdc_balance = 0
          /\ ex.pc \in {"idle", "returned"}
          /\ ex.pc = "returned" => ex.result = SignerMissingError)
  /\ [][(signer = None /\ ex.pc = "returned")
          => (queue' = queue /\ executions' = executions)]_vars

\* without a signer, the second opportunity of a snapshot has been dropped
\* after the first
C18_Witness ==
  /\ signer = None
  /\ executions = 2
  /\ ex.pc = "returned"
  /\ ex.result = SignerMissingError
  /\ ex.opp[1].eth_up_token_id = "eth-down"
  /\ queue = <<>>
  /\ trace = <<>>

----------------------------------------------------------------------------
(* Properties of the loop *)

\* the opportunities of a snapshot in which every token asks 0.40
LoopOpportunities ==
  LET r == detect_opportunities(PricedSnapshot(40, 40, 40, 40), 1)
  IN {r.opportunities[i] : i \in DOMAIN r.opportunities}

ErrReturned == ex.pc = "returned" /\ ex.result \in ErrResults

\* C19: the callback runs only on a snapshot that fetch_market_data built
\* from its four reads; after an execute_arbitrage that returned an error,
\* each opportunity still queued for that tick is executed in its turn; and
\* the loop then reaches the top of its next iteration.
C19_LoopSurvivesFailedExecution ==
  /\ [](mon.pc \in {"callback", "executing"} =>
          /\ Len(mon.legs) = 4
          /\ SnapshotLegs = mon.legs)
  /\ \A o \in LoopOpportunities :
       (ErrReturned /\ queue # <<>> /\ Head(queue) = o)
         ~> (ex.pc = "returned" /\ ex.opp = Some(o))
  /\ ErrReturned ~> (mon.pc = "tick")

\* the first execution of a tick has returned an error with the second
\* opportunity still queued, the signer being present
C19_Witness ==
  /\ signer # None
  /\ mon.pc = "executing"
  /\ ErrReturned
  /\ ex.result = "Err: get_market"
  /\ Len(queue) = 1

----------------------------------------------------------------------------
(* Properties of the discovery *)

\* the get_market_by_slug calls made so far for an asset, in order
TriesOf(prefix) == SelectSeq(discovery.tried, LAMBDA t : t.prefix = prefix)

\* the market found for an asset, if any
FoundFor(prefix) == IF prefix = "eth" THEN discovery.eth ELSE discovery.btc

\* the condition ids claimed before an asset is discovered
ClaimedBefore(prefix) ==
  IF prefix = "eth" \/ discovery.eth = None THEN {}
  ELSE {discovery.eth[1].condition_id}

\* the call fetched a market that is active, not closed and not claimed
Acceptable(t) ==
  /\ t.result.ok
  /\ t.result.active
  /\ ~t.result.closed
  /\ t.result.condition_id \notin ClaimedBefore(t.prefix)

\* the slug of the k-th candidate: the current period's for k = 1, then the
\* three periods before it
ExpectedSlug(prefix, k) ==
  <<[text |-> prefix], [text |-> "updown"], [text |-> "15m"],
    [digits |-> (discovery.now - (discovery.now % 900)) - (k - 1) * 900]>>

NoMarketError(prefix) ==
  IF prefix = "eth" THEN "Err: No active ETH market found"
  ELSE "Err: No active BTC market found"

----------------------------------------------------------------------------
(* Properties of the two submissions *)

Started(result) == result # "none"

\* the two requests of the current opportunity, in the order join! polls them
LegRequests ==
  <<OrderRequest(ex.opp[1].eth_up_token_id, ex.opp[1].eth_up_price,
                 ex.position_size),
    OrderRequest(ex.opp[1].btc_down_token_id, ex.opp[1].btc_down_price,
                 ex.position_size)>>

\* as soon as either submission has been started both have been, and outside
\* read-only mode both requests have been sent
BothStartedTogether ==
  (Started(ex.eth_result) \/ Started(ex.btc_result)) =>
    /\ Started(ex.eth_result) /\ Started(ex.btc_result)
    /\ ~read_only =>
         /\ Len(posted) >= 2
         /\ SubSeq(posted, Len(posted) - 1, Len(posted)) = LegRequests

\* a call that returns after the submissions has let each of them run to its
\* own result
EachLegRanToItsResult ==
  (ex.pc = "returned" /\ Started(ex.eth_result)) =>
    /\ ex.eth_result # "in_flight"
    /\ ex.btc_result # "in_flight"

ExactlyOneAccepted ==
  \/ ex.eth_result = "accepted" /\ ex.btc_result \in PostErrors
  \/ ex.btc_result = "accepted" /\ ex.eth_result \in PostErrors

\* while the call waits, the answer to one leg changes nothing of the other
LegsAnsweredApart ==
  (ex.pc = "joined" /\ ex'.pc = "joined") =>
    /\ posted' = posted
    /\ ex'.eth_result # ex.eth_result => ex'.btc_result = ex.btc_result
    /\ ex'.btc_result # ex.btc_result => ex'.eth_result = ex.eth_result

\* once exactly one leg is accepted the call only returns Ok and is dropped:
\* nothing more is signed or sent for the opportunity
NothingFollowsOneLeg ==
  (ExactlyOneAccepted /\ ex.pc \in {"joined", "returned"}) =>
    /\ posted' = posted
    /\ signed' = signed
    /\ ex'.pc \in {ex.pc, "returned", "idle"}
    /\ ex'.pc = "returned" => ex'.result = "Ok"

\* C21: the two leg submissions are not atomic: both are started before
\* either result is awaited, the failure of one neither prevents nor cancels
\* the other, and when exactly one leg has been accepted no compensating
\* step follows (the call returns Ok and nothing more is signed or sent).
C21_LegsSubmittedWithoutAtomicity ==
  /\ [](BothStartedTogether /\ EachLegRanToItsResult)
  /\ [][LegsAnsweredApart /\ NothingFollowsOneLeg]_vars

\* the call has returned Ok with the ETH leg accepted and the BTC leg rejected
C21_Witness ==
  /\ ex.pc = "returned"
  /\ ex.result = "Ok"
  /\ ex.eth_result = "accepted"
  /\ ex.btc_result = "rejected"
  /\ Len(posted) >= 2

Occurs(label) == \E i \in DOMAIN trace : trace[i] = label

EthTokens == {"eth-up", "eth-down"}

BtcTokens == {"btc-up", "btc-down"}

\* the requests sent so far come in pairs, an ETH leg followed by a BTC leg of
\* the same size
PostedInPairs ==
  /\ Len(posted) % 2 = 0
  /\ \A k \in 1 .. (Len(posted) \div 2) :
       /\ posted[2 * k - 1].token_id \in EthTokens
       /\ posted[2 * k].token_id \in BtcTokens
       /\ posted[2 * k - 1].size = posted[2 * k].size

\* the call has given up: on an error, on a closed market or on a zero size
Aborted ==
  /\ ex.pc = "returned"
  /\ \/ ex.result \in ErrResults
     \/ EitherReportsClosed
     \/ (Occurs("calculate_position_size") /\ ex.position_size <= 0)

\* C22: within one execute_arbitrage call a submission is attempted for the
\* ETH leg if and only if one is attempted for the BTC leg; every abort path
\* lies before the first submission; the requests sent are always complete
\* pairs, so no execution ends with exactly one leg sent.
C22_BothLegsOrNeither ==
  /\ Occurs("place_eth") <=> Occurs("place_btc")
  /\ Started(ex.eth_result) <=> Started(ex.btc_result)
  /\ Aborted => (~Occurs("place_eth") /\ ~Occurs("place_btc")
                 /\ ~Started(ex.eth_result) /\ ~Started(ex.btc_result))
  /\ PostedInPairs

\* the last abort path: the BTC signature failed after the ETH one succeeded,
\* in an execution that follows one which sent both legs; nothing was added
C22_Witness ==
  /\ ex.pc = "returned"
  /\ ex.result = "Err: sign_order"
  /\ Occurs("sign_btc")
  /\ Len(posted) = 2
  /\ executions = 2

MarketFetchFailed ==
  \/ Occurs("get_market_eth") /\ ex.eth_accepting = None
  \/ Occurs("get_market_btc") /\ ex.btc_accepting = None

BalanceFetchFailed == Occurs("refresh_balance") /\ ex.fetched_balance = None

ExternalCalls ==
  {"get_market_eth", "get_market_btc", "refresh_balance", "place_eth",
   "place_btc"}

AtMostOnce(label) ==
  \A i \in DOMAIN trace : \A j \in DOMAIN trace :
    (trace[i] = label /\ trace[j] = label) => i = j

\* C23: when a market-detail fetch or the balance fetch fails the call has
\* returned that error with nothing signed or submitted, and no external
\* call is made twice for one opportunity.
C23_FetchFailureAbandonsWithoutRetry ==
  /\ (MarketFetchFailed \/ BalanceFetchFailed) =>
       /\ ex.pc = "returned"
       /\ ex.result = (IF MarketFetchFailed THEN "Err: get_market"
                       ELSE "Err: get_usdc_balance")
       /\ ~Occurs("sign_eth") /\ ~Occurs("sign_btc")
       /\ ~Occurs("place_eth") /\ ~Occurs("place_btc")
  /\ \A label \in ExternalCalls : AtMostOnce(label)

\* both markets were fetched and accept orders, the balance fetch failed and
\* the call returned its error
C23_Witness ==
  /\ ex.pc = "returned"
  /\ ex.result = "Err: get_usdc_balance"
  /\ trace = <<"get_market_eth", "get_market_btc", "refresh_balance">>
  /\ ex.eth_accepting = Some(TRUE)
  /\ ex.btc_accepting = Some(TRUE)

\* both orders of the current opportunity have been signed
BothLegsSigned == Occurs("sign_btc") /\ ex.result # "Err: sign_order"

\* C24: the two orders built for one opportunity both have side 0 (BUY), the
\* same size, the expiration of the execution's unix time plus 300, and
\* distinct nonces: that unix time for the first leg and one more for the
\* second; the requests sent for them carry side "BUY".
C24_OrderPairFields ==
  /\ BothLegsSigned =>
       LET eth_order == signed[Len(signed) - 1]
           btc_order == signed[Len(signed)]
       IN /\ eth_order.token_id = str_to_h256(ex.opp[1].eth_up_token_id)
          /\ btc_order.token_id = str_to_h256(ex.opp[1].btc_down_token_id)
          /\ eth_order.side = 0 /\ btc_order.side = 0
          /\ eth_order.size = btc_order.size
          /\ eth_order.expiration = ex.now + 300
          /\ btc_order.expiration = ex.now + 300
          /\ eth_order.nonce = ex.now
          /\ btc_order.nonce = ex.now + 1
          /\ eth_order.nonce # btc_order.nonce
  /\ \A i \in DOMAIN posted : posted[i].side = "BUY"

\* both orders signed at unix time 1 and submitted
C24_Witness ==
  /\ ex.pc = "joined"
  /\ ex.now = 1
  /\ Len(signed) >= 2
  /\ Len(posted) >= 2

\* C28: execute_arbitrage returns Ok whenever both submissions were
\* attempted, whatever their outcomes: rejected, failed in transport or
\* refused in read-only mode.
C28_OkAfterBothSubmissions ==
  (ex.pc = "returned" /\ Occurs("place_eth") /\ Occurs("place_btc")) =>
    ex.result = "Ok"

\* the ETH leg was rejected, the BTC leg failed in transport, and the call
\* returned Ok
C28_Witness ==
  /\ ex.pc = "returned"
  /\ ex.result = "Ok"
  /\ ex.eth_result = "rejected"
  /\ ex.btc_result = "transport_error"

----------------------------------------------------------------------------
(* Properties of the two combinations *)

\* the snapshot reduced to the tokens of one combination
OnlyFirstPair(snap) ==
  MakeSnapshot(snap.eth_market.up_token, None, None, snap.btc_market.down_token)

OnlySecondPair(snap) ==
  MakeSnapshot(None, snap.eth_market.down_token, snap.btc_market.up_token, None)

\* what the detector returns for each combination taken alone
FirstAlone == detect_opportunities(OnlyFirstPair(snapshot), min_profit_threshold)

SecondAlone == detect_opportunities(OnlySecondPair(snapshot), min_profit_threshold)

OppositeOutcomes(o) ==
  \/ o.eth_up_token_id = "eth-up" /\ o.btc_down_token_id = "btc-down"
  \/ o.eth_up_token_id = "eth-down" /\ o.btc_down_token_id = "btc-up"

----------------------------------------------------------------------------
(* Properties of the stored markets and of the token mappings over rotations *)

\* the snapshot is one that fetch_market_data assembled
MonitorBuilt == "timestamp" \in DOMAIN snapshot

\* C26: no operation of the monitor changes the two stored Market records:
\* the condition ids asked for by every resolution, and the condition ids,
\* names, slugs and end times placed in every snapshot, are those of the
\* records given at construction, whatever the period the monitor is in.
C26_MarketsFixedAtConstruction ==
  /\ mon.asked # <<>> =>
       mon.asked = <<eth_market.condition_id, btc_market.condition_id>>
  /\ MonitorBuilt =>
       /\ snapshot.eth_market.condition_id = eth_market.condition_id
       /\ snapshot.btc_market.condition_id = btc_market.condition_id
       /\ snapshot.eth_market_meta = MarketMeta(eth_market)
       /\ snapshot.btc_market_meta = MarketMeta(btc_market)
       /\ snapshot.eth_market_meta.end_time_unix = 900
       /\ snapshot.btc_market_meta.end_time_unix = 900

\* two rotations after construction, the resolution has asked for the first
\* period's condition ids and the snapshot built at 1800 carries the first
\* period's markets, which ended at 900
C26_Witness ==
  /\ MonitorBuilt
  /\ mon.pc = "callback"
  /\ mon.rotated
  /\ current_period_timestamp = 1800
  /\ snapshot.timestamp = 1800
  /\ mon.asked = <<"eth-cond", "btc-cond">>
  /\ snapshot.eth_market_meta.end_time_unix = 900

\* the feed's updates before the monitor starts: a 0.60 ask for every token,
\* so that no pair is an arbitrage
RotationFeed ==
  <<[token_id |-> "eth-up", value |-> CachedOrderbook(<<>>, <<<<60, 5>>>>, 0)],
    [token_id |-> "eth-down", value |-> CachedOrderbook(<<>>, <<<<60, 5>>>>, 0)],
    [token_id |-> "btc-up", value |-> CachedOrderbook(<<>>, <<<<60, 5>>>>, 0)],
    [token_id |-> "btc-down", value |-> CachedOrderbook(<<>>, <<<<60, 5>>>>, 0)]>>

\* the monitor over period rotations, with a book cached for every token
InitRotation ==
  /\ DetectIdle
  /\ cache_map = [id \in TokenIds |-> Some(CachedOrderbook(<<>>, <<<<60, 5>>>>, 0))]
  /\ rw_lock = [writer |-> FALSE, readers |-> 0]
  /\ wall_ms = 0
  /\ feed = FeedIdle
  /\ reader = ReaderIdle
  /\ updates = RotationFeed
  /\ ExecIdle
  /\ unix_now = 0
  /\ MonitorConstructed(0)
  /\ DiscoveryIdle

NextRotation ==
  \/ TickRotate
  \/ RefreshCheck
  \/ \E r \in LabelledResults("eth-up", "eth-down") : FetchEthDetail(r)
  \/ \E r \in LabelledResults("btc-up", "btc-down") : FetchBtcDetail(r)
  \/ \E r \in BalanceResults : FetchBalance(r)
  \/ FetchTokenPrice
  \/ BuildSnapshot
  \/ Callback
  \/ CallbackDone
  \/ Sleep
  \/ \E t \in ResolveClock : AdvanceClock(t)

SpecRotation == InitRotation /\ [][NextRotation]_vars

\* the step is the end of a failed get_market for the ETH market
EthFetchFailed ==
  mon.pc = "fetch_eth" /\ mon'.pc = "fetch_btc" /\ ~mon'.eth_in[1].ok

\* the step is the end of a failed get_market for the BTC market
BtcFetchFailed ==
  mon.pc = "fetch_btc" /\ mon'.pc = "build" /\ ~mon'.btc_in[1].ok

\* this tick's resolution ran and both its fetches failed
ResolutionFailed ==
  /\ mon.fetched = {"eth", "btc"}
  /\ ~mon.eth_in[1].ok
  /\ ~mon.btc_in[1].ok

\* C29: a failed market-detail fetch leaves that asset's UP and DOWN
\* mappings unchanged; no step, a period rotation included, turns a mapping
\* that holds a token id back to unset; and the snapshot built after a
\* resolution whose fetches failed carries, for every mapping that was set
\* before, the token id it held before.
C29_MappingsOutliveFailedFetches ==
  /\ [][/\ EthFetchFailed => (/\ resolved'.eth_up = resolved.eth_up
                              /\ resolved'.eth_down = resolved.eth_down)
        /\ BtcFetchFailed => (/\ resolved'.btc_up = resolved.btc_up
                              /\ resolved'.btc_down = resolved.btc_down)
        /\ \A k \in DOMAIN resolved :
             resolved[k] # None => resolved'[k] # None]_vars
  /\ []((mon.pc = "callback" /\ ResolutionFailed) =>
          /\ resolved = mon.before
          /\ \A k \in DOMAIN LegOrder :
               mon.before[LegOrder[k]] # None =>
                 /\ SnapshotLegs[k] # None
                 /\ SnapshotLegs[k][1].token_id = mon.before[LegOrder[k]][1])

\* after a rotation both fetches failed, and the snapshot prices the token
\* the earlier resolution had mapped to ETH UP (from a lower-case label list
\* with the ids exchanged)
C29_Witness ==
  /\ mon.pc = "callback"
  /\ mon.rotated
  /\ current_period_timestamp = 900
  /\ ResolutionFailed
  /\ resolved.eth_up = Some("eth-down")
  /\ snapshot.eth_market.up_token # None
  /\ snapshot.eth_market.up_token[1].token_id = "eth-down"
  /\ snapshot.timestamp = 900

----------------------------------------------------------------------------
(* Properties of the ticks *)

\* an execute_arbitrage is running or opportunities wait for theirs
ExecutionPending == ex.pc # "idle" \/ queue # <<>>

\* C30: ticks never overlap and each tick invokes the callback exactly once:
\* a tick that has reached its sleep has invoked it once, whatever the
\* market-detail and balance fetches returned; no tick invokes it twice; and
\* an execution runs or waits only inside the current tick's callback, which
\* is over before the sleep and the next tick.
C30_OneCallbackPerTick ==
  /\ mon.callbacks <= 1
  /\ mon.pc = "sleep" => mon.callbacks = 1
  /\ mon.pc \in {"callback", "executing", "sleep"} =>
       (Len(mon.legs) = 4 /\ mon.balance_in # None)
  /\ ExecutionPending => mon.pc = "executing"
  /\ mon.pc \in {"sleep", "tick", "refresh", "fetch_eth", "fetch_btc", "build",
                 "callback"} => ex.pc = "idle"

\* the balance fetch of the tick failed, the callback was invoked once and
\* executed both opportunities one after the other, and the tick is at its
\* sleep
C30_Witness ==
  /\ mon.pc = "sleep"
  /\ mon.callbacks = 1
  /\ ~mon.balance_in[1].ok
  /\ executions = 2
  /\ ex.pc = "idle"
  /\ queue = <<>>

----------------------------------------------------------------------------
(* Properties of the cache's entries *)

\* an update() of id took the write lock before the current get() took its
\* read lock
UpdatedBeforeGet(id) ==
  \E i \in 1 .. reader.seen : updates[i].token_id = id

\* C27: update(id, ..) changes only the entry of id and leaves every other
\* entry as it was; no entry is ever removed; and get(id) returns absent
\* exactly when no update(id, ..) preceded it.
C27_UpdateTouchesOnlyItsEntry ==
  /\ [][\A id \in TokenIds :
          /\ cache_map'[id] # cache_map[id] =>
               (feed.pc \in {"insert", "insert_rest"} /\ feed.token_id = id)
          /\ cache_map[id] # None => cache_map'[id] # None]_vars
  /\ [](reader.pc = "done" =>
          (reader.result = None <=> ~UpdatedBeforeGet(reader.token_id)))

\* BTC-DOWN was populated first and ETH-UP updated twice since; BTC-DOWN's
\* entry is still the one stored and a get of it, made after the three
\* updates, returned it
C27_Witness ==
  /\ Len(updates) = 3
  /\ updates[1].token_id = "btc-down"
  /\ updates[2].token_id = "eth-up"
  /\ updates[3].token_id = "eth-up"
  /\ feed.pc = "idle"
  /\ cache_map["btc-down"] = Some(updates[1].value)
  /\ cache_map["eth-up"] = Some(updates[3].value)
  /\ reader.pc = "done"
  /\ reader.token_id = "btc-down"
  /\ reader.seen = 3
  /\ reader.result = Some(updates[1].value)

=============================================================================
